---- MODULE Spec2Model ----
(***************************************************************************)
(* Message orchestration pipeline of clawdbot-gemini:                      *)
(*   Agent.process_message (src/src/core/agent.py), the in-process         *)
(*   SessionManager (src/src/core/session.py), MemoryBank                  *)
(*   (src/src/core/memory.py), MemoryExtractor, ClawdbotCliTool and the     *)
(*   reply handler of ClawdbotApplication (src/src/main.py).               *)
(*                                                                         *)
(* The event loop is single threaded and cooperative: the code between two *)
(* awaits runs atomically, so every action below is one such stretch of    *)
(* code, from one suspension point to the next.                            *)
(*                                                                         *)
(* Strings are sequences of one-character strings where the code looks at  *)
(* characters (user ids), and sequences of tokens where it looks at words  *)
(* (message texts; the token " " is a whitespace character).  The two      *)
(* Chinese reset keywords are written "chongzhi" and "qingchujiyi".        *)
(***************************************************************************)
EXTENDS Integers, Sequences, FiniteSets, TLC

\* ---------------------------------------------------------------- bounds
MaxCalls == 2          \* process_message calls submitted in one behaviour
MaxHistory == 2        \* SessionManager.max_history of the modelled instance
TriggerInterval == 4   \* MemoryExtractor.trigger_interval of the instance
MaxIdLen == 2          \* length of the raw platform user ids of MemSpec
MaxOps == 5            \* operations on the SessionManager of StoreSpec
MaxErrors == 2         \* Redis commands that raise in StoreSpec
MaxPieces == 3         \* pieces a classified message is put together from
MaxTurns == 4          \* messages of the history a prompt is built from
MaxManagerOps == 4     \* register_channel and set_global_handler calls
MaxLarkSends == 2      \* requests sent through the Lark adapter

\* ------------------------------------------------------------ user ids
\* real_user_id = user_id.split(":")[-1]; if ":" in user_id: real_user_id = user_id
RealUserId(user_id) ==
    LET colons == {i \in 1..Len(user_id) : user_id[i] = ":"}
        last_part ==
            IF colons = {} THEN user_id
            ELSE LET k == CHOOSE i \in colons : \A j \in colons : j <= i
                 IN  SubSeq(user_id, k + 1, Len(user_id))
    IN  IF colons # {} THEN user_id ELSE last_part

\* re.sub(r'[^a-zA-Z0-9_\-:]', '', real_user_id): the characters kept
AllowedChars ==
    {"a","b","c","d","e","f","g","h","i","j","k","l","m","n","o","p","q","r",
     "s","t","u","v","w","x","y","z",
     "A","B","C","D","E","F","G","H","I","J","K","L","M","N","O","P","Q","R",
     "S","T","U","V","W","X","Y","Z",
     "0","1","2","3","4","5","6","7","8","9", "_", "-", ":"}

Sanitize(s) == SelectSeq(s, LAMBDA ch : ch \in AllowedChars)

\* safe_uid = user_id.replace(":", "_").replace("/", "_")
SafeUid(user_id) ==
    [i \in 1..Len(user_id) |->
        IF user_id[i] \in {":", "/"} THEN "_" ELSE user_id[i]]

\* The file of MemoryBank that a process_message call for user_id works on.
MemoryKey(user_id) == SafeUid(Sanitize(RealUserId(user_id)))

\* ------------------------------------------------------- message texts
Whitespace == {" ", "\n"}

\* str.strip()
Strip(t) ==
    LET RECURSIVE LStrip(_)
        LStrip(s) ==
            IF s # <<>> /\ Head(s) \in Whitespace THEN LStrip(Tail(s)) ELSE s
        RECURSIVE RStrip(_)
        RStrip(s) ==
            IF s # <<>> /\ s[Len(s)] \in Whitespace
            THEN RStrip(SubSeq(s, 1, Len(s) - 1)) ELSE s
    IN  RStrip(LStrip(t))

\* ["/reset", "/clear", "重置", "清除记忆"]
ResetKeywords ==
    {<<"/reset">>, <<"/clear">>, <<"chongzhi">>, <<"qingchujiyi">>}

\* the membership test on the text as received, without the strip
IsResetUntrimmed(text) == text \in ResetKeywords

\* line 97: message.strip() in [...]
IsReset(text) == Strip(text) \in ResetKeywords

\* str.lower() on words
Lower(tok) ==
    CASE tok = "/RESET" -> "/reset"
      [] tok = "Explain" -> "explain"
      [] tok = "DEBUG" -> "debug"
      [] tok \in {"Search", "SEARCH"} -> "search"
      [] tok \in {"Clawdbot", "CLAWDBOT"} -> "clawdbot"
      [] OTHER -> tok

\* The texts IntentDetector works on are sequences of characters; a Chinese
\* character is written by a name ("jie", "shi" for the two characters of
\* the first explanation keyword).
\* str.lower() of a text, character by character
LowerStr(text) ==
    LET upper ==
            <<"A", "B", "C", "D", "E", "F", "G", "H", "I", "J", "K", "L", "M",
              "N", "O", "P", "Q", "R", "S", "T", "U", "V", "W", "X", "Y", "Z">>
        lower ==
            <<"a", "b", "c", "d", "e", "f", "g", "h", "i", "j", "k", "l", "m",
              "n", "o", "p", "q", "r", "s", "t", "u", "v", "w", "x", "y", "z">>
        lower_char(ch) ==
            IF \E i \in 1..Len(upper) : upper[i] = ch
            THEN lower[CHOOSE i \in 1..Len(upper) : upper[i] = ch]
            ELSE ch
    IN  [i \in 1..Len(text) |-> lower_char(text[i])]

\* explain_keywords, code_keywords, debug_keywords
ExplainKeywords ==
    {<<"jie", "shi">>,
     <<"shuo", "ming">>,
     <<"e", "x", "p", "l", "a", "i", "n">>,
     <<"w", "h", "a", "t", " ", "d", "o", "e", "s">>,
     <<"zhe", "duan", "dai", "ma">>}

CodeKeywords ==
    {<<"xie", "dai", "ma">>,
     <<"sheng", "cheng", "dai", "ma">>,
     <<"shi2", "xian">>,
     <<"c", "r", "e", "a", "t", "e">>,
     <<"w", "r", "i", "t", "e", " ", "c", "o", "d", "e">>,
     <<"i", "m", "p", "l", "e", "m", "e", "n", "t">>,
     <<"xie", "yi", "ge">>,
     <<"xie", "ge">>,
     <<"yong", "p", "y", "t", "h", "o", "n">>,
     <<"yong", "j", "s">>,
     <<"p", "y", "t", "h", "o", "n", " ", "s", "c", "r", "i", "p", "t">>,
     <<"w", "r", "i", "t", "e", " ", "a", " ", "s", "c", "r", "i", "p", "t">>,
     <<"c", "o", "d", "i", "n", "g">>}

DebugKeywords ==
    {<<"bao", "cuo">>,
     <<"cuo", "wu">>,
     <<"b", "u", "g">>,
     <<"d", "e", "b", "u", "g">>,
     <<"xiu", "fu">>,
     <<"wen", "ti">>}

\* any(kw in message_lower for kw in keywords), where "kw in message_lower"
\* is: kw occurs in the text as a substring
HasKeyword(text, kws) ==
    \E kw \in kws :
        \E i \in 1..(Len(text) - Len(kw) + 1) :
            \A j \in 1..Len(kw) : text[i + j - 1] = kw[j]

\* a detection that looks for the code keywords first
DetectIntentCodeFirst(message) ==
    LET message_lower == Strip(LowerStr(message))
    IN  IF HasKeyword(message_lower, CodeKeywords) THEN "code_generation"
        ELSE IF HasKeyword(message_lower, ExplainKeywords)
             THEN "code_explanation"
        ELSE IF HasKeyword(message_lower, DebugKeywords) THEN "debugging"
        ELSE "conversation"

\* IntentDetector.detect_intent
DetectIntent(message) ==
    LET message_lower == Strip(LowerStr(message))
    IN  IF HasKeyword(message_lower, ExplainKeywords) THEN "code_explanation"
        ELSE IF HasKeyword(message_lower, CodeKeywords) THEN "code_generation"
        ELSE IF HasKeyword(message_lower, DebugKeywords) THEN "debugging"
        ELSE "conversation"

\* IntentDetector.get_mode_from_intent: the value of the AgentMode
GetModeFromIntent(intent) ==
    IF intent \in {"code_generation", "code_explanation", "debugging"}
    THEN intent ELSE "conversation"

\* the characters of the words of a message text
RECURSIVE SpellAll(_)
SpellAll(text) ==
    LET Spell(tok) ==
            CASE tok = "/reset" -> <<"/", "r", "e", "s", "e", "t">>
              [] tok = "/RESET" -> <<"/", "R", "E", "S", "E", "T">>
              [] tok = "debug" -> <<"d", "e", "b", "u", "g">>
              [] tok = "DEBUG" -> <<"D", "E", "B", "U", "G">>
              [] tok = "Explain" -> <<"E", "x", "p", "l", "a", "i", "n">>
              [] OTHER -> <<tok>>
    IN  IF text = <<>> THEN <<>>
        ELSE Spell(Head(text)) \o SpellAll(Tail(text))

\* ------------------------------------------------- users and identities
Chars(platform) == IF platform = "qq" THEN <<"q", "q">> ELSE <<"l", "a", "r", "k">>

\* The users of the repository's concurrency scenario (reproduce_issue.py:
\* distinct users of one platform), as UnifiedMessage senders.
Users ==
    {[platform |-> "qq", uid |-> <<"1">>], [platform |-> "qq", uid |-> <<"2">>]}

Today == <<"2", "0", "2", "6", "0", "2", "1", "4">>

Private == <<"p", "r", "i", "v", "a", "t", "e">>

Group == <<"g", "r", "o", "u", "p">>

\* session ids that are kept by chat instead of by user
GetSessionIdsByChat(message, today_str) ==
    [session_id |->
        message.platform \o <<":", "u", "s", "e", "r", ":">> \o message.chat_id
            \o <<":">> \o today_str \o <<":", "v", "2">>,
     callback_session_id |->
        message.platform \o <<":">> \o message.message_type \o <<":">>
            \o message.chat_id]

\* MessageProcessor._get_session_ids for a message processed on the day
\* today_str:
\*   session_id = f"{message.platform}:user:{message.user_id}:{today_str}:v2"
\*   callback_session_id =
\*       f"{message.platform}:{message.message_type}:{message.chat_id}"
GetSessionIds(message, today_str) ==
    [session_id |->
        message.platform \o <<":", "u", "s", "e", "r", ":">> \o message.user_id
            \o <<":">> \o today_str \o <<":", "v", "2">>,
     callback_session_id |->
        message.platform \o <<":">> \o message.message_type \o <<":">>
            \o message.chat_id]

\* the private message of a user: the chat id is the user id
MessageOf(u) ==
    [platform |-> Chars(u.platform), user_id |-> u.uid, chat_id |-> u.uid,
     message_type |-> Private]

SessionId(u) == GetSessionIds(MessageOf(u), Today).session_id

\* user_id_str = f"{message.platform}:{message.user_id}"
UserId(u) == Chars(u.platform) \o <<":">> \o u.uid

SessionIds == {SessionId(u) : u \in Users}

MemFiles == {MemoryKey(UserId(u)) : u \in Users}

\* ------------------------------------------------------ LLM responses
\* What a response text holds: a [Search: q] marker (as spelled, or in lower
\* case, or none) and a [Clawdbot: t] marker (likewise).
Markers ==
    {[search |-> "none",   claw |-> "none"],
     [search |-> "Search", claw |-> "none"],
     [search |-> "none",   claw |-> "Clawdbot"]}

MinOf(S) == CHOOSE x \in S : \A y \in S : x <= y

NoMatch == [matched |-> FALSE, group |-> <<>>]

\* re.search(r'\[<keyword>:\s*(.*?)\]', text, flags) with re.DOTALL and with
\* or without re.IGNORECASE, on a text of tokens: the first "[" keyword ":"
\* that a "]" follows; the group starts after the blanks and line breaks and
\* ends before the first "]"
ReSearch(text, keyword, ignorecase) ==
    LET spelled(tok) == IF ignorecase THEN Lower(tok) = Lower(keyword)
                        ELSE tok = keyword
        closing(from) == {j \in from..Len(text) : text[j] = "]"}
        starts == {i \in 1..Len(text) :
                        /\ i + 2 <= Len(text)
                        /\ text[i] = "["
                        /\ spelled(text[i + 1])
                        /\ text[i + 2] = ":"
                        /\ closing(i + 3) # {}}
    IN  IF starts = {} THEN NoMatch
        ELSE LET i == MinOf(starts)
                 j == MinOf(closing(i + 3))
                 k == MinOf({n \in (i + 3)..j : text[n] \notin Whitespace})
             IN  [matched |-> TRUE, group |-> SubSeq(text, k, j - 1)]

\* re.search(r'\[Clawdbot:\s*(.*?)\]', text, re.DOTALL)
ClawdbotMatch(r) == r.claw = "Clawdbot"

\* ------------------------------------------------------------- contents
\* One text of the system: t is what it is, call the process_message call it
\* comes from, n the number of the LLM response, seen the users whose input
\* it can hold (an LLM response can repeat anything of its prompt).
Content(t, c, n, text, mk, seen) ==
    [t |-> t, call |-> c, n |-> n, text |-> text,
     search |-> mk.search, claw |-> mk.claw, seen |-> seen]

NoMark == [search |-> "none", claw |-> "none"]

ResetText == Content("reset_done", 0, 0, <<>>, NoMark, {})

\* f"收到，正在调用 Clawdbot 为您处理：{task_prompt}..." for the task of r
AckText(r) == Content("ack", r.call, r.n, <<>>, NoMark, r.seen)

\* f"抱歉，处理您消息时出现了问题：{str(e)}"
ApologyText(c) == Content("apology", c, 0, <<>>, NoMark, {})

Turn(role, content) == [role |-> role, content |-> content]

\* ---------------------------------------------------------------- state
VARIABLES
    calls,         \* the process_message calls, in order of submission
    hist,          \* SessionManager._memory_history: session id -> turns
    memory,        \* MemoryBank: file -> text (a set of facts, {} = no text)
    current_mode,  \* Agent.current_mode
    tasks,         \* background tasks of ClawdbotCliTool.run_async
    extractions,   \* background tasks of Agent._update_user_memory
    outbox,        \* what was sent to the chats, in order
    config,        \* how the Agent was constructed
    probe          \* the identities on whose behalf MemSpec acts

vars ==
    <<calls, hist, memory, current_mode, tasks, extractions, outbox, config,
      probe>>

\* ------------------------------------------- SessionManager (in process)
\* a store that hands out one list whatever the session id
GetHistoryShared(h, session_id) ==
    LET all == DOMAIN h
        RECURSIVE Cat(_)
        Cat(S) == IF S = {} THEN <<>>
                  ELSE LET x == CHOOSE y \in S : TRUE
                       IN  h[x] \o Cat(S \ {x})
    IN  Cat(all)

\* SessionManager.get_history, memory branch
GetHistory(h, session_id) == h[session_id]

\* lines 127-128 and _trim_history: a list longer than max_history * 2 is
\* cut to list[-max_history * 2:] (ltrim key -max_history*2 -1 in Redis)
\* (Python list[-n:] for n > 0; list[-0:] is list[0:], the whole list)
TrimHistory(messages, max_history) ==
    LET n == max_history * 2
    IN  IF Len(messages) > n /\ n # 0
        THEN SubSeq(messages, Len(messages) - n + 1, Len(messages))
        ELSE messages

\* an append that trims the list before it appends to it
AddMessageTrimsFirst(h, session_id, message, max_history) ==
    [h EXCEPT ![session_id] = Append(TrimHistory(@, max_history), message)]

\* SessionManager.add_message on a keyed store of lists, for a manager
\* constructed with max_history
AddMessageWith(h, session_id, message, max_history) ==
    [h EXCEPT ![session_id] = TrimHistory(Append(@, message), max_history)]

\* an append that leaves out the search observations
AddMessageSkipsObservation(h, session_id, role, content) ==
    IF content.t = "obs" THEN h
    ELSE AddMessageWith(h, session_id, Turn(role, content), MaxHistory)

\* SessionManager.add_message, memory branch: append, then keep the last
\* max_history * 2 messages
AddMessage(h, session_id, role, content) ==
    AddMessageWith(h, session_id, Turn(role, content), MaxHistory)

\* a clear that empties the whole dictionary
ClearSessionAll(h, session_id) == [s \in DOMAIN h |-> <<>>]

\* SessionManager.clear_session, memory branch
ClearSession(h, session_id) == [h EXCEPT ![session_id] = <<>>]

\* ------------------------------------------------------------ MemoryBank
GetUserMemory(m, user_id) == m[SafeUid(user_id)]

SaveUserMemory(m, user_id, text) == [m EXCEPT ![SafeUid(user_id)] = text]

DeleteUserMemory(m, user_id) == [m EXCEPT ![SafeUid(user_id)] = {}]

\* MemoryExtractor(trigger_interval = 10)
DefaultTriggerInterval == 10

\* a trigger on every multiple of the interval, zero included
ShouldTriggerOnMultiples(history_length, trigger_interval) ==
    history_length % trigger_interval = 0

\* MemoryExtractor.should_trigger of an extractor with trigger_interval
ShouldTriggerWith(history_length, trigger_interval) ==
    history_length > 0 /\ history_length % trigger_interval = 0

\* --------------------------------------------------------- PromptBuilder
\* a prompt that keeps the turns of the two speakers only
BuildConversationPromptOfSpeakers(history, message, include_system, system) ==
    LET kept == SelectSeq(history,
                          LAMBDA msg : msg.role \in {"user", "assistant"})
    IN  (IF include_system THEN <<Turn("system", system)>> ELSE <<>>)
            \o [i \in 1..Len(kept) |-> Turn(kept[i].role, kept[i].content)]
            \o <<Turn("user", message)>>

\* PromptBuilder.build_conversation_prompt: the system entry, the role and
\* the content of the history messages of the three roles, the new message
BuildConversationPromptWith(history, message, include_system, system) ==
    LET kept == SelectSeq(history,
                    LAMBDA msg : msg.role \in {"user", "assistant", "system"})
    IN  (IF include_system THEN <<Turn("system", system)>> ELSE <<>>)
            \o [i \in 1..Len(kept) |-> Turn(kept[i].role, kept[i].content)]
            \o <<Turn("user", message)>>

PromptSeen(prompt) == UNION {prompt[i].content.seen : i \in 1..Len(prompt)}

\* ------------------------------------------------------------- the calls
NoResponse == Content("none", 0, 0, <<>>, NoMark, {})

\* A new call; during is the set of the calls that are in flight when it is
\* submitted.
NewCallWith(u, text, during, callback_session_id) ==
    [user |-> u, text |-> text, during |-> during,
     session_id |-> SessionId(u),
     callback_session_id |-> callback_session_id,
     real_user_id |-> Sanitize(RealUserId(UserId(u))),
     pc |-> "start", mode |-> "none", prompt |-> <<>>,
     first |-> NoResponse, latest |-> NoResponse, response |-> NoResponse,
     llm |-> 0, searches |-> 0, notices |-> 0, matched |-> 0, spawned |-> 0,
     appended |-> 0, fault |-> "none",
     result |-> [success |-> FALSE, text |-> NoResponse, mode |-> "none",
                 error |-> FALSE]]

\* the text an LLM call of c answers with, for the markers mk it chose
Response(c, n, mk, prompt) == Content("resp", c, n, <<>>, mk, PromptSeen(prompt))

\* the background tasks a call has spawned: none yet
NoTask == [task |-> 0, session_id |-> <<>>, state |-> "none",
           outcome |-> "none", notified |-> 0]

NoExtraction == [user_id |-> <<>>, about |-> {}, state |-> "none",
                 existing |-> {}]

\* the chats messages are sent to
Chats ==
    {GetSessionIds(MessageOf(u), Today).callback_session_id : u \in Users}
        \cup SessionIds

\* a delivery that puts what is sent before what the chat already holds
SendFirst(box, msgs) ==
    IF msgs = <<>> THEN box
    ELSE [box EXCEPT ![msgs[1].to] = msgs \o @]

\* ChannelManager.send_message for the chat of a session id
Send(box, msgs) ==
    IF msgs = <<>> THEN box
    ELSE [box EXCEPT ![msgs[1].to] = @ \o msgs]

\* The Agent is constructed with or without the Clawdbot tool, with a
\* synchronous or an asynchronous notification callback or none.
Init ==
    /\ calls = <<>>
    /\ hist = [s \in SessionIds |-> <<>>]
    /\ memory = [f \in MemFiles |-> {}]
    /\ current_mode = "conversation"
    /\ tasks = [c \in 1..MaxCalls |-> NoTask]
    /\ extractions = [c \in 1..MaxCalls |-> NoExtraction]
    /\ outbox = [chat \in Chats |-> <<>>]
    /\ config \in {[tool |-> TRUE,  callback |-> "async"],
                  [tool |-> TRUE,  callback |-> "sync"],
                  [tool |-> TRUE,  callback |-> "none"],
                  [tool |-> FALSE, callback |-> "async"]}
    /\ probe = <<>>

\* The state after construction when one part is modelled on its own: no
\* call has been made, and probe starts as one of the records of probes.
ProbeInit(probes) ==
    /\ calls = <<>>
    /\ hist = [s \in SessionIds |-> <<>>]
    /\ memory = [f \in MemFiles |-> {}]
    /\ current_mode = "conversation"
    /\ tasks = [c \in 1..MaxCalls |-> NoTask]
    /\ extractions = [c \in 1..MaxCalls |-> NoExtraction]
    /\ outbox = [chat \in Chats |-> <<>>]
    /\ config = [tool |-> TRUE, callback |-> "async"]
    /\ probe \in probes

\* ------------------------------------------------ Agent.process_message
\* a target that is always the key of the session
TargetSessionIdOfSession(cr) == cr.session_id

\* target_session_id = callback_session_id or session_id (<<>> is a call
\* without callback_session_id: the default None, or an empty string)
TargetSessionId(cr) ==
    IF cr.callback_session_id # <<>> THEN cr.callback_session_id
    ELSE cr.session_id

\* a handler that catches the errors of the LLM client only
CatchesLlmErrors(fault) == fault \in {"llm1", "llm2"}

\* "except Exception as e": the faults of the try body that the handler catches
Catches(fault) == TRUE

\* a dispatch that does not look at what is configured
DispatchesUnconfigured(r) == ClawdbotMatch(r)

\* lines 212-221: a marker is dispatched when the tool and the callback exist
Dispatches(r) ==
    ClawdbotMatch(r) /\ config.tool /\ config.callback # "none"

\* the response text kept as the LLM gave it, marker included
FinalTextRaw(scanned, r) == r

\* response["text"] after the Clawdbot scan: the acknowledgement of the task
\* of the scanned response, or the response r left as it is
FinalText(scanned, r) == IF Dispatches(scanned) THEN AckText(scanned) ELSE r

\* a Clawdbot scan applied to the first response of the call
ScannedFirst(cr, r) == cr.first

\* the response the Clawdbot scan is applied to: response["text"], which the
\* search round trip has replaced by the second response
ScannedResponse(cr, r) == r

\* ClawdbotApplication._handle_unified_message, after message_processor.process:
\* what the handler sends for a result
HandlerReply(cr, result) ==
    IF cr.callback_session_id # <<>> /\ result.success
       /\ result.text.t # "none"
    THEN <<[to |-> cr.callback_session_id, content |-> result.text,
            via |-> "reply"]>>
    ELSE <<>>

\* a call of the notification callback: the content reaches the chat
Notification(session_id, content) ==
    [to |-> session_id, content |-> content, via |-> "callback"]

UserMessage(c, cr) == Content("msg", c, 0, cr.text, NoMark, {cr.user})

\* lines 96-109: the reset branch, then the handler's reply
Reset(c, cr) ==
    LET result == [success |-> TRUE, text |-> ResetText,
                   mode |-> "conversation", error |-> FALSE]
    IN  /\ hist' = ClearSession(hist, cr.session_id)
        /\ memory' = DeleteUserMemory(memory, cr.real_user_id)
        /\ calls' = Append(calls, [cr EXCEPT !.pc = "done", !.result = result])
        /\ outbox' = Send(outbox, HandlerReply(cr, result))
        /\ UNCHANGED <<current_mode, tasks, extractions, config, probe>>

\* lines 111-174: classification, memory and history reads, prompt, first
\* LLM call (the call is suspended on it)
Prepare(c, cr) ==
    LET mode == GetModeFromIntent(DetectIntent(SpellAll(cr.text)))
        user_memory == GetUserMemory(memory, cr.real_user_id)
        \* the system prompt holds the memory text, and so the input of
        \* the users that text is about
        system == Content("sys", c, 0, <<>>, NoMark,
                          UNION {f.about : f \in user_memory} \cup {cr.user})
        history == GetHistory(hist, cr.session_id)
        \* lines 147-150: include_system=True, system_prompt_override
        prompt == BuildConversationPromptWith(history, UserMessage(c, cr),
                                              TRUE, system)
    IN  /\ current_mode' = mode
        /\ calls' = Append(calls, [cr EXCEPT !.pc = "llm1", !.mode = mode,
                                             !.prompt = prompt, !.llm = 1])
        /\ UNCHANGED <<hist, memory, tasks, extractions, outbox, config, probe>>

\* process_message up to its first await, for the call record cr
ProcessCall(cr) ==
    /\ Len(calls) < MaxCalls
    /\ IF IsReset(cr.text) THEN Reset(Len(calls) + 1, cr)
       ELSE Prepare(Len(calls) + 1, cr)

\* An inbound message of user u: process_message runs up to its first await.
\* MessageProcessor.process makes the call with the callback session id of
\* the message.
ProcessMessage(u, text) ==
    ProcessCall(NewCallWith(u, text,
                    {d \in 1..Len(calls) : calls[d].pc # "done"},
                    GetSessionIds(MessageOf(u), Today).callback_session_id))

\* process_message called without the message pipeline (tests/unit/
\* test_agent.py, reproduce_issue.py): no callback_session_id, no reply
ProcessDirect(u, text) ==
    ProcessCall(NewCallWith(u, text,
                    {d \in 1..Len(calls) : calls[d].pc # "done"}, <<>>))

\* lines 209-251: Clawdbot scan of the latest response r, persist, memory
\* extraction trigger, return; then the handler's reply
\* an update of the memory that is awaited where it is started: it has
\* ended when the call goes on
UpdateUserMemoryAwaited(user_id, history) ==
    [user_id |-> user_id, about |-> PromptSeen(history),
     state |-> "failed", existing |-> {}]

\* lines 238-240: asyncio.create_task(self._update_user_memory(...)); the
\* task has not run when the call goes on
UpdateUserMemory(user_id, history) ==
    [user_id |-> user_id, about |-> PromptSeen(history),
     state |-> "spawned", existing |-> {}]

Finish(c, cr, r) ==
    LET scanned == ScannedResponse(cr, r)
        text == FinalText(scanned, r)
        h1 == AddMessage(hist, cr.session_id, "user", UserMessage(c, cr))
        h2 == AddMessage(h1, cr.session_id, "assistant", text)
        updated_history == GetHistory(h2, cr.session_id)
        result == [success |-> TRUE, text |-> text, mode |-> cr.mode,
                   error |-> FALSE]
    IN  /\ hist' = h2
        /\ tasks' =
            IF Dispatches(scanned)
            THEN [tasks EXCEPT ![c] =
                    [task |-> scanned.n, session_id |-> TargetSessionId(cr),
                     state |-> "pending", outcome |-> "none", notified |-> 0]]
            ELSE tasks
        /\ extractions' =
            IF ShouldTriggerWith(Len(updated_history), TriggerInterval)
            THEN [extractions EXCEPT ![c] =
                    UpdateUserMemory(cr.real_user_id, updated_history)]
            ELSE extractions
        /\ calls' = [calls EXCEPT ![c] =
                        [cr EXCEPT !.pc = "done", !.response = text,
                                   !.latest = r,
                                   !.matched = IF ClawdbotMatch(scanned)
                                               THEN scanned.n ELSE 0,
                                   !.appended = @ + 2,
                                   !.spawned = IF Dispatches(scanned)
                                               THEN @ + 1 ELSE @,
                                   !.result = result]]
        /\ outbox' = Send(outbox, HandlerReply(cr, result))
        /\ UNCHANGED <<memory, current_mode, config, probe>>

\* lines 253-260: the except branch; the handler then only logs the error
Fail(c, cr, fault) ==
    LET result == [success |-> FALSE, text |-> ApologyText(c),
                   mode |-> current_mode, error |-> TRUE]
    IN  /\ calls' = [calls EXCEPT ![c] =
                        IF Catches(fault)
                        THEN [cr EXCEPT !.pc = "done", !.fault = fault,
                                        !.result = result]
                        ELSE [cr EXCEPT !.pc = "raised", !.fault = fault]]
        /\ outbox' = IF Catches(fault)
                     THEN Send(outbox, HandlerReply(cr, result))
                     ELSE outbox

\* lines 178-192 after a Search match in r, with a callback that returned:
\* the notice is out and the call is suspended on the web search
StartSearch(c, cr, noticed) ==
    /\ calls' = [calls EXCEPT ![c] =
                    [cr EXCEPT !.pc = "search",
                               !.notices = IF noticed THEN @ + 1 ELSE @]]
    /\ outbox' =
        IF noticed
        THEN LET r == cr.first
                 notice == Content("notice", r.call, r.n, <<>>, NoMark, r.seen)
             IN  Send(outbox, <<Notification(TargetSessionId(cr), notice)>>)
        ELSE outbox

\* The first LLM call of c returns a text with the markers mk.  With a
\* synchronous callback the notice is sent in the same stretch of code
\* (callback_ok: the callback returns, or raises).
LlmFirstReturns(c, mk, callback_ok) ==
    /\ c \in 1..Len(calls)
    /\ calls[c].pc = "llm1"
    /\ LET r == Response(c, 1, mk, calls[c].prompt)
           cr == [calls[c] EXCEPT !.first = r, !.latest = r, !.response = r]
       \* re.search(r'\[Search:\s*(.*?)\]', text, re.IGNORECASE | re.DOTALL)
       IN  IF r.search \in {"Search", "search"}
           THEN /\ callback_ok = FALSE => config.callback = "sync"
                /\ CASE config.callback = "none" -> StartSearch(c, cr, FALSE)
                     [] config.callback = "sync" ->
                          IF callback_ok THEN StartSearch(c, cr, TRUE)
                          ELSE Fail(c, cr, "notify")
                     [] config.callback = "async" ->
                          /\ calls' = [calls EXCEPT ![c] =
                                          [cr EXCEPT !.pc = "notify"]]
                          /\ outbox' = outbox
                /\ UNCHANGED <<hist, memory, current_mode, tasks,
                               extractions, config, probe>>
           ELSE /\ callback_ok
                /\ Finish(c, cr, r)

\* An LLM call of c raises (network error, timeout, bad status).
LlmRaises(c) ==
    /\ c \in 1..Len(calls)
    /\ calls[c].pc \in {"llm1", "llm2"}
    /\ Fail(c, calls[c], calls[c].pc)
    /\ UNCHANGED <<hist, memory, current_mode, tasks, extractions, config,
                   probe>>

\* The awaited asynchronous notification callback returns.
NotifyReturns(c) ==
    /\ c \in 1..Len(calls)
    /\ calls[c].pc = "notify"
    /\ StartSearch(c, calls[c], TRUE)
    /\ UNCHANGED <<hist, memory, current_mode, tasks, extractions, config,
                   probe>>

\* The awaited asynchronous notification callback raises.
NotifyRaises(c) ==
    /\ c \in 1..Len(calls)
    /\ calls[c].pc = "notify"
    /\ Fail(c, calls[c], "notify")
    /\ UNCHANGED <<hist, memory, current_mode, tasks, extractions, config,
                   probe>>

\* lines 192-205: search_web_duckduckgo returns (results or an error text, it
\* never raises); both intermediate turns go to the prompt and to the
\* session, and the LLM is called again.
SearchReturns(c) ==
    /\ c \in 1..Len(calls)
    /\ calls[c].pc = "search"
    /\ LET cr == calls[c]
           \* the observation built from the search results of the query
           observation == Content("obs", cr.first.call, cr.first.n, <<>>,
                                  NoMark, cr.first.seen)
           h1 == AddMessage(hist, cr.session_id, "assistant", cr.first)
           h2 == AddMessage(h1, cr.session_id, "user", observation)
       IN  /\ hist' = h2
           /\ calls' = [calls EXCEPT ![c] =
                [cr EXCEPT !.pc = "llm2",
                           !.prompt = @ \o <<Turn("assistant", cr.first),
                                             Turn("user", observation)>>,
                           !.searches = @ + 1, !.appended = @ + 2,
                           !.llm = @ + 1]]
    /\ UNCHANGED <<memory, current_mode, tasks, extractions, outbox, config,
                   probe>>

\* The second LLM call of c returns a text with the markers mk.
LlmSecondReturns(c, mk) ==
    /\ c \in 1..Len(calls)
    /\ calls[c].pc = "llm2"
    /\ LET r == Response(c, 2, mk, calls[c].prompt)
       IN  Finish(c, calls[c], r)

\* ------------------------------ ClawdbotCliTool._execute_http_request
\* What the POST to the wrapper ends with: 200 with a reply, 200 in callback
\* mode or without a reply (the wrapper delivers the result itself), another
\* status, asyncio.TimeoutError, any other exception.
Outcomes == {"reply", "accepted", "status", "timeout", "exception"}

\* whether the task calls the callback for an outcome: the reply branch calls
\* a coroutine function and a plain function, the three error branches only
\* "if asyncio.iscoroutinefunction(callback)"
CallsBack(outcome) ==
    CASE outcome = "reply" -> TRUE
      [] outcome = "accepted" -> FALSE
      [] OTHER -> config.callback = "async"

\* The background task t ends with the outcome.
ToolCompletes(t, outcome) ==
    /\ t \in 1..MaxCalls
    /\ tasks[t].state = "pending"
    /\ tasks' = [tasks EXCEPT ![t] =
                    [@ EXCEPT !.state = "done", !.outcome = outcome,
                              !.notified = IF CallsBack(outcome) THEN 1 ELSE 0]]
    /\ outbox' =
        IF CallsBack(outcome)
        THEN LET text == Content(IF outcome = "reply" THEN "tool_result"
                                 ELSE "tool_error",
                                 t, tasks[t].task, <<>>, NoMark, {})
             IN  Send(outbox, <<Notification(tasks[t].session_id, text)>>)
        ELSE outbox
    /\ UNCHANGED <<calls, hist, memory, current_mode, extractions, config,
                   probe>>

\* ------------------------------------ MemoryExtractor.extract_and_update
\* The background task e starts: without a Gemini client it gives up, else it
\* reads the existing memory and waits for the extraction call.
ExtractStart(e, available) ==
    /\ e \in 1..MaxCalls
    /\ extractions[e].state = "spawned"
    /\ extractions' = [extractions EXCEPT ![e] =
            IF available
            THEN [@ EXCEPT !.state = "asking",
                           !.existing =
                               GetUserMemory(memory, extractions[e].user_id)]
            ELSE [@ EXCEPT !.state = "failed"]]
    /\ UNCHANGED <<calls, hist, memory, current_mode, tasks, outbox, config,
                   probe>>

\* "if len(new_memory) < 20"
MinMemoryLen == 20

Filled(n) == [i \in 1..n |-> "x"]

\* how the extraction call ends: a result with success, a result without,
\* or an exception.  What ask_question can answer with, as characters (" "
\* is whitespace): no text, one character less than the minimum followed by
\* a blank, the minimum, the minimum after a blank
ExtractResults ==
    {[outcome |-> "success", response |-> t] :
        t \in {<<>>, Filled(MinMemoryLen - 1) \o <<" ">>,
               Filled(MinMemoryLen), <<" ">> \o Filled(MinMemoryLen)}}
        \cup {[outcome |-> "failure", response |-> <<>>],
              [outcome |-> "raised", response |-> <<>>]}

\* a validation of the response as it came, blanks included
AcceptedUntrimmed(res) ==
    res.outcome = "success" /\ ~(Len(res.response) < MinMemoryLen)

\* lines 155-164: the result is a success and new_memory, the stripped
\* response, is not shorter than 20
Accepted(res) ==
    res.outcome = "success" /\ ~(Len(Strip(res.response)) < MinMemoryLen)

\* The extraction call of e ends: only an accepted profile is saved, merged
\* with the memory read at the start; every other end, an exception
\* included, is logged and gives False.
ExtractEnds(e, res) ==
    /\ e \in 1..MaxCalls
    /\ extractions[e].state = "asking"
    /\ LET x == extractions[e]
           new_memory == x.existing \cup {[src |-> e, about |-> x.about]}
       IN  /\ memory' = IF Accepted(res)
                        THEN SaveUserMemory(memory, x.user_id, new_memory)
                        ELSE memory
           /\ extractions' = [extractions EXCEPT ![e] =
                [@ EXCEPT !.state = IF Accepted(res) THEN "saved"
                                    ELSE "failed"]]
    /\ UNCHANGED <<calls, hist, current_mode, tasks, outbox, config>>

ExtractFinish(e, res) == ExtractEnds(e, res) /\ UNCHANGED probe

\* -------------------------------------------------------- specification
Next ==
    \/ \E u \in Users,
          text \in {<<" ", "/reset", " ">>, <<"/reset", " ", "debug">>} :
            ProcessMessage(u, text)
    \/ \E c \in 1..MaxCalls, mk \in Markers, ok \in BOOLEAN :
            LlmFirstReturns(c, mk, ok)
    \/ \E c \in 1..MaxCalls : LlmRaises(c)
    \/ \E c \in 1..MaxCalls : NotifyReturns(c)
    \/ \E c \in 1..MaxCalls : NotifyRaises(c)
    \/ \E c \in 1..MaxCalls : SearchReturns(c)
    \/ \E c \in 1..MaxCalls, mk \in Markers : LlmSecondReturns(c, mk)
    \/ \E t \in 1..MaxCalls, outcome \in Outcomes : ToolCompletes(t, outcome)
    \/ \E e \in 1..MaxCalls, available \in BOOLEAN : ExtractStart(e, available)
    \/ \E e \in 1..MaxCalls, res \in ExtractResults : ExtractFinish(e, res)

Spec == Init /\ [][Next]_vars

\* -------------------------------------------- calls of different modes
\* ModeSpec: the calls of Spec for messages that are classified differently,
\* on an Agent with the tool and an asynchronous callback.
ModeInit ==
    /\ Init
    /\ config = [tool |-> TRUE, callback |-> "async"]

ModeSpec ==
    ModeInit /\ [][
        \/ \E u \in Users, text \in {<<"/reset", " ", "debug">>, <<"Explain">>} :
                ProcessMessage(u, text)
        \/ \E c \in 1..MaxCalls, mk \in Markers, ok \in BOOLEAN :
                LlmFirstReturns(c, mk, ok)
        \/ \E c \in 1..MaxCalls : LlmRaises(c)
        \/ \E c \in 1..MaxCalls : NotifyReturns(c)
        \/ \E c \in 1..MaxCalls : NotifyRaises(c)
        \/ \E c \in 1..MaxCalls : SearchReturns(c)
        \/ \E c \in 1..MaxCalls, mk \in Markers : LlmSecondReturns(c, mk)
        \/ \E t \in 1..MaxCalls, outcome \in Outcomes : ToolCompletes(t, outcome)
        \/ \E e \in 1..MaxCalls, available \in BOOLEAN : ExtractStart(e, available)
        \/ \E e \in 1..MaxCalls, res \in ExtractResults : ExtractFinish(e, res)]_vars

\* ------------------------------------- calls with and without a callback id
\* RouteSpec: the calls of Spec for one text, made by the message pipeline
\* (with the callback session id of the chat) or directly (without one), on
\* an Agent with the tool and an asynchronous callback.
RouteSpec ==
    ModeInit /\ [][
        \/ \E u \in Users : ProcessMessage(u, <<"debug">>)
        \/ \E u \in Users : ProcessDirect(u, <<"debug">>)
        \/ \E c \in 1..MaxCalls, mk \in Markers, ok \in BOOLEAN :
                LlmFirstReturns(c, mk, ok)
        \/ \E c \in 1..MaxCalls : LlmRaises(c)
        \/ \E c \in 1..MaxCalls : NotifyReturns(c)
        \/ \E c \in 1..MaxCalls : NotifyRaises(c)
        \/ \E c \in 1..MaxCalls : SearchReturns(c)
        \/ \E c \in 1..MaxCalls, mk \in Markers : LlmSecondReturns(c, mk)
        \/ \E t \in 1..MaxCalls, outcome \in Outcomes : ToolCompletes(t, outcome)
        \/ \E e \in 1..MaxCalls, available \in BOOLEAN : ExtractStart(e, available)
        \/ \E e \in 1..MaxCalls, res \in ExtractResults : ExtractFinish(e, res)]_vars

\* -------------------------------------------- the marker scans on texts
\* ScanSpec: the two re.search calls of process_message applied to response
\* texts given as tokens: "[", a keyword as spelled, ":", blanks and line
\* breaks, words, "]". probe holds the text, the keyword and the content it
\* was written with, and what the two scans found.

\* line 178 and line 180: the Search scan of the text and its query
ScanSearch ==
    /\ "search" \notin probe.scanned
    /\ probe' = [probe EXCEPT !.scanned = @ \cup {"search"}, !.search =
                    LET m == ReSearch(probe.text, "Search", TRUE)
                    IN  [matched |-> m.matched, group |-> Strip(m.group)]]
    /\ UNCHANGED <<calls, hist, memory, current_mode, tasks, extractions,
                   outbox, config>>

\* line 211 and line 214: the Clawdbot scan of the text and its task
ScanClawdbot ==
    /\ "clawdbot" \notin probe.scanned
    /\ probe' = [probe EXCEPT !.scanned = @ \cup {"clawdbot"}, !.clawdbot =
                    LET m == ReSearch(probe.text, "Clawdbot", FALSE)
                    IN  [matched |-> m.matched, group |-> Strip(m.group)]]
    /\ UNCHANGED <<calls, hist, memory, current_mode, tasks, extractions,
                   outbox, config>>

ScanSpec ==
    ProbeInit(
        {[text |-> before \o <<"[", kw, ":">> \o blanks \o content
                      \o <<"]">> \o after,
           keyword |-> kw, content |-> content,
           scanned |-> {}, search |-> NoMatch, clawdbot |-> NoMatch] :
            kw \in {"Search", "search", "SEARCH", "Clawdbot", "clawdbot",
                    "CLAWDBOT", "Note"},
            content \in {<<"q">>, <<"q", "\n", "r">>, <<"q", " ">>},
            blanks \in {<<>>, <<" ">>, <<"\n">>},
            before \in {<<>>, <<"hi", " ">>},
            after \in {<<>>, <<" ", "]">>}})
    /\ [][ScanSearch \/ ScanClawdbot]_vars

\* ------------------------------------------- IntentDetector on its own
\* IntentSpec: detect_intent and get_mode_from_intent applied to messages
\* put together from up to MaxPieces pieces: keywords of the three lists as
\* written, in upper case and cut in two, and other words.
RECURSIVE Joined(_)
Joined(n) ==
    LET Pieces ==
            {<<"e", "x", "p", "l", "a", "i", "n">>, <<"E", "x", "p", "l", "a">>,
             <<"i", "n">>, <<"w", "h", "a", "t">>, <<" ">>,
             <<"d", "o", "e", "s">>, <<"c", "r", "e", "a", "t", "e">>,
             <<"C", "O", "D", "I", "N", "G">>, <<"b", "u", "g">>, <<"d", "e">>,
             <<"jie", "shi">>, <<"bao", "cuo">>, <<"\n">>}
    IN  IF n = 0 THEN {<<>>}
        ELSE Joined(n - 1) \cup {t \o p : t \in Joined(n - 1), p \in Pieces}

\* detector.detect_intent(message)
DetectIntentCall ==
    /\ probe.intent = "none"
    /\ probe' = [probe EXCEPT !.intent = DetectIntent(probe.message)]
    /\ UNCHANGED <<calls, hist, memory, current_mode, tasks, extractions,
                   outbox, config>>

\* detector.determine_mode(message): the detection once more, then the mode
DetermineModeCall ==
    /\ probe.intent # "none"
    /\ probe.mode = "none"
    /\ LET intent == DetectIntent(probe.message)
       IN  probe' = [probe EXCEPT !.again = intent,
                                  !.mode = GetModeFromIntent(intent)]
    /\ UNCHANGED <<calls, hist, memory, current_mode, tasks, extractions,
                   outbox, config>>

IntentSpec ==
    ProbeInit(
        {[message |-> message, intent |-> "none", again |-> "none",
           mode |-> "none"] :
            message \in Joined(MaxPieces)})
    /\ [][DetectIntentCall \/ DetermineModeCall]_vars

\* -------------------------------------------- PromptBuilder on its own
\* PromptSpec: build_conversation_prompt for the histories add_message can
\* leave in a session: up to MaxTurns messages of the roles of its
\* interface (user, assistant, system) in any order, equal ones included.

\* add_message(session_id, role, content) on the session of the probe
PromptAdd(role, content) ==
    /\ probe.prompt = <<>>
    /\ Len(probe.history) < MaxTurns
    /\ probe' = [probe EXCEPT !.history = Append(@, Turn(role, content))]
    /\ UNCHANGED <<calls, hist, memory, current_mode, tasks, extractions,
                   outbox, config>>

\* get_history, then build_conversation_prompt as process_message calls it
PromptBuild(message) ==
    /\ probe.prompt = <<>>
    /\ probe' = [probe EXCEPT
                    !.message = message,
                    !.prompt = BuildConversationPromptWith(
                                    probe.history, message, TRUE, "sys")]
    /\ UNCHANGED <<calls, hist, memory, current_mode, tasks, extractions,
                   outbox, config>>

PromptSpec ==
    ProbeInit(
        {[history |-> <<>>, message |-> "none", prompt |-> <<>>]})
    /\ [][
        \/ \E role \in {"user", "assistant", "system"}, content \in {"a", "b"} :
                PromptAdd(role, content)
        \/ \E message \in {"a", "b"} : PromptBuild(message)]_vars

\* ------------------------------------------ memory keys of any identities
\* MemSpec: the memory operations of process_message, of the reset branch and
\* of the extraction, done on behalf of two distinct identities
\* "platform:userId" whose raw user ids are made of "1", "_", ":" and "/".
RECURSIVE SeqsUpTo(_, _)
SeqsUpTo(S, n) ==
    IF n = 0 THEN {<<>>}
    ELSE LET shorter == SeqsUpTo(S, n - 1)
         IN  shorter \cup {Append(q, x) : q \in shorter, x \in S}

ProbeIds ==
    {Chars("qq") \o <<":">> \o uid :
        uid \in SeqsUpTo({"1", "_", ":", "/"}, MaxIdLen) \ {<<>>}}

MemInit ==
    /\ calls = <<>>
    /\ hist = [s \in SessionIds |-> <<>>]
    /\ current_mode = "conversation"
    /\ tasks = [c \in 1..MaxCalls |-> NoTask]
    /\ extractions = [c \in 1..MaxCalls |-> NoExtraction]
    /\ outbox = [chat \in Chats |-> <<>>]
    /\ config = [tool |-> TRUE, callback |-> "async"]
    /\ \E a, b \in ProbeIds :
        /\ a # b
        /\ probe = [ids |-> <<a, b>>, touched |-> <<{}, {}>>,
                    read |-> <<{}, {}>>]
        /\ memory = [f \in {MemoryKey(a), MemoryKey(b)} |-> {}]

\* real_user_id of a process_message call for the identity i
ProbeUser(i) == Sanitize(RealUserId(probe.ids[i]))

\* agent.py line 118: the memory read of a call for identity i
MemRead(i) ==
    /\ probe' = [probe EXCEPT
                    !.touched[i] = @ \cup {SafeUid(ProbeUser(i))},
                    !.read[i] = GetUserMemory(memory, ProbeUser(i))]
    /\ UNCHANGED <<calls, hist, memory, current_mode, tasks, extractions,
                   outbox, config>>

\* memory_extractor.py line 167: the write of an extraction for identity i
MemWrite(i) ==
    /\ memory' = SaveUserMemory(memory, ProbeUser(i),
                    GetUserMemory(memory, ProbeUser(i))
                        \cup {[src |-> i, about |-> {probe.ids[i]}]})
    /\ probe' = [probe EXCEPT !.touched[i] = @ \cup {SafeUid(ProbeUser(i))}]
    /\ UNCHANGED <<calls, hist, current_mode, tasks, extractions, outbox,
                   config>>

\* agent.py line 102: the delete of a reset for identity i
MemDelete(i) ==
    /\ memory' = DeleteUserMemory(memory, ProbeUser(i))
    /\ probe' = [probe EXCEPT !.touched[i] = @ \cup {SafeUid(ProbeUser(i))}]
    /\ UNCHANGED <<calls, hist, current_mode, tasks, extractions, outbox,
                   config>>

MemSpec ==
    MemInit /\ [][\E i \in {1, 2} : MemRead(i) \/ MemWrite(i) \/ MemDelete(i)]_vars

\* ------------------------------------- SessionManager with a Redis store
\* The manager alone, constructed with any max_history and with Redis
\* enabled or not; hist is _memory_history and probe holds the other fields
\* of the manager, the Redis server and what the operations have been:
\*   redis_client (connected or None), redis_connection_failed, up (the
\*   server answers), redis (its lists), pings (connection attempts), errors
\*   (Redis commands that raised), ops (operations so far), op (the last
\*   one), all (the turns appended to each session since its last clear),
\*   read (what the last get_history returned).
\* a client that tries to connect again after a failed attempt
GetRedisClientRetrying(p) ==
    IF ~p.redis_enabled THEN p
    ELSE IF ~p.redis_client
         THEN IF p.up
              THEN [p EXCEPT !.redis_client = TRUE, !.pings = @ + 1,
                             !.redis_connection_failed = FALSE]
              ELSE [p EXCEPT !.redis_connection_failed = TRUE,
                             !.redis_client = FALSE, !.pings = @ + 1]
         ELSE p

\* SessionManager._get_redis_client: the manager after the call; the client
\* it returns is the redis_client field, None unless connected
GetRedisClient(p) ==
    IF ~p.redis_enabled \/ p.redis_connection_failed THEN p
    ELSE IF ~p.redis_client
         THEN IF p.up
              THEN [p EXCEPT !.redis_client = TRUE, !.pings = @ + 1]
              ELSE [p EXCEPT !.redis_connection_failed = TRUE,
                             !.redis_client = FALSE, !.pings = @ + 1]
         ELSE p

\* the client a call of _get_redis_client returned on the manager p
ClientOf(p) ==
    p.redis_enabled /\ ~p.redis_connection_failed /\ p.redis_client

StoreTurn(n) == Turn(IF n % 2 = 1 THEN "user" ELSE "assistant", n)

\* an operation of kind on a session has been made
Did(p, kind, session_id) ==
    [p EXCEPT !.ops = @ + 1,
              !.op = [kind |-> kind, session_id |-> session_id]]

\* SessionManager.add_message: on Redis the error of a command is logged and
\* the message is dropped; without a client the memory branch appends
StoreAdd(session_id) ==
    LET p == GetRedisClient(probe)
        message == StoreTurn(probe.ops + 1)
        q == [Did(p, "add", session_id) EXCEPT
                    !.all[session_id] = Append(@, message)]
    IN  /\ probe.ops < MaxOps
        /\ IF ClientOf(p)
           THEN /\ hist' = hist
                /\ IF p.up
                   THEN probe' = [q EXCEPT !.redis =
                            AddMessageWith(@, session_id, message,
                                           p.max_history)]
                   ELSE /\ p.errors < MaxErrors
                        /\ probe' = [q EXCEPT !.errors = @ + 1]
           ELSE /\ hist' = AddMessageWith(hist, session_id, message,
                                          p.max_history)
                /\ probe' = q
        /\ UNCHANGED <<calls, memory, current_mode, tasks, extractions,
                       outbox, config>>

\* SessionManager.get_history: on Redis the error of lrange gives []
StoreGet(session_id) ==
    LET p == GetRedisClient(probe)
        q == Did(p, "get", session_id)
    IN  /\ probe.ops < MaxOps
        /\ IF ClientOf(p)
           THEN IF p.up
                THEN probe' = [q EXCEPT !.read = p.redis[session_id]]
                ELSE /\ p.errors < MaxErrors
                     /\ probe' = [q EXCEPT !.read = <<>>, !.errors = @ + 1]
           ELSE probe' = [q EXCEPT !.read = GetHistory(hist, session_id)]
        /\ UNCHANGED <<calls, hist, memory, current_mode, tasks, extractions,
                       outbox, config>>

\* SessionManager.clear_session
StoreClear(session_id) ==
    LET p == GetRedisClient(probe)
        q == [Did(p, "clear", session_id) EXCEPT !.all[session_id] = <<>>]
    IN  /\ probe.ops < MaxOps
        /\ IF ClientOf(p)
           THEN /\ hist' = hist
                /\ IF p.up
                   THEN probe' = [q EXCEPT !.redis =
                                    ClearSession(@, session_id)]
                   ELSE /\ p.errors < MaxErrors
                        /\ probe' = [q EXCEPT !.errors = @ + 1]
           ELSE /\ hist' = ClearSession(hist, session_id)
                /\ probe' = q
        /\ UNCHANGED <<calls, memory, current_mode, tasks, extractions,
                       outbox, config>>

\* the Redis server stops answering
RedisFails ==
    /\ probe.up
    /\ probe' = [probe EXCEPT !.up = FALSE]
    /\ UNCHANGED <<calls, hist, memory, current_mode, tasks, extractions,
                   outbox, config>>

\* the Redis server answers again
RedisRecovers ==
    /\ ~probe.up
    /\ probe' = [probe EXCEPT !.up = TRUE]
    /\ UNCHANGED <<calls, hist, memory, current_mode, tasks, extractions,
                   outbox, config>>

StoreSpec ==
    ProbeInit(
        {[max_history |-> max_history,
           redis_enabled |-> redis_enabled,
           redis_client |-> FALSE,
           redis_connection_failed |-> FALSE,
           up |-> up,
           redis |-> [s \in SessionIds |-> <<>>],
           pings |-> 0, errors |-> 0, ops |-> 0,
           op |-> [kind |-> "none", session_id |-> <<>>],
           all |-> [s \in SessionIds |-> <<>>],
           read |-> <<>>] :
            max_history \in 0..MaxHistory, redis_enabled, up \in BOOLEAN})
    /\ [][
        \/ \E s \in SessionIds : StoreAdd(s)
        \/ \E s \in SessionIds : StoreGet(s)
        \/ \E s \in SessionIds : StoreClear(s)
        \/ RedisFails
        \/ RedisRecovers]_vars

\* ------------------------------------------- MemoryBank as a text store
\* The bank alone, used for two distinct sanitized user ids: memory maps a
\* file to its text (empty when the file is missing) and probe holds the
\* ids, the last operation, what the last read returned and, for each id,
\* the text of its latest save not followed by a delete.
BankInit ==
    /\ calls = <<>>
    /\ hist = [s \in SessionIds |-> <<>>]
    /\ current_mode = "conversation"
    /\ tasks = [c \in 1..MaxCalls |-> NoTask]
    /\ extractions = [c \in 1..MaxCalls |-> NoExtraction]
    /\ outbox = [chat \in Chats |-> <<>>]
    /\ config = [tool |-> TRUE, callback |-> "async"]
    /\ \E a, b \in {Sanitize(id) : id \in ProbeIds} :
        /\ a # b
        /\ probe = [ids |-> <<a, b>>, latest |-> <<(<<>>), (<<>>)>>,
                    read |-> <<>>, op |-> [kind |-> "none", id |-> 0]]
        /\ memory = [f \in {SafeUid(a), SafeUid(b)} |-> <<>>]

\* MemoryBank.get_user_memory on files of text: f.read().strip()
BankGet(i) ==
    /\ probe' = [probe EXCEPT
                    !.read = Strip(GetUserMemory(memory, probe.ids[i])),
                    !.op = [kind |-> "get", id |-> i]]
    /\ UNCHANGED <<calls, hist, memory, current_mode, tasks, extractions,
                   outbox, config>>

\* MemoryBank.save_user_memory: the file is written in one call that no
\* other coroutine can interleave with
BankPut(i, text) ==
    /\ memory' = SaveUserMemory(memory, probe.ids[i], text)
    /\ probe' = [probe EXCEPT !.latest[i] = text,
                              !.op = [kind |-> "put", id |-> i]]
    /\ UNCHANGED <<calls, hist, current_mode, tasks, extractions, outbox,
                   config>>

\* MemoryBank.delete_user_memory
BankDelete(i) ==
    /\ memory' = [memory EXCEPT ![SafeUid(probe.ids[i])] = <<>>]
    /\ probe' = [probe EXCEPT !.latest[i] = <<>>,
                              !.op = [kind |-> "delete", id |-> i]]
    /\ UNCHANGED <<calls, hist, current_mode, tasks, extractions, outbox,
                   config>>

BankSpec ==
    BankInit /\ [][
        \E i \in {1, 2} :
            \/ BankGet(i)
            \/ \E text \in {<<"profile">>, <<" ", "notes", " ">>, <<" ">>} :
                    BankPut(i, text)
            \/ BankDelete(i)]_vars

\* ----------------------------------------- MemoryExtractor on its own
\* ExtractSpec: extract_and_update started for the users of MaxCalls update
\* tasks, each user with a memory record or none; probe holds the extraction
\* that ended last and the result its LLM call ended with.
OldMemory == {[src |-> 0, about |-> {}]}

ExtractInit ==
    /\ calls = <<>>
    /\ hist = [s \in SessionIds |-> <<>>]
    /\ current_mode = "conversation"
    /\ tasks = [c \in 1..MaxCalls |-> NoTask]
    /\ outbox = [chat \in Chats |-> <<>>]
    /\ config = [tool |-> TRUE, callback |-> "async"]
    /\ memory \in [MemFiles -> {{}, OldMemory}]
    /\ \E who \in [1..MaxCalls -> Users] :
        extractions = [e \in 1..MaxCalls |->
            UpdateUserMemory(Sanitize(RealUserId(UserId(who[e]))),
                             <<Turn("user",
                                    Content("msg", e, 0, <<>>, NoMark,
                                            {who[e]}))>>)]
    /\ probe = [e |-> 0, res |-> [outcome |-> "none", response |-> <<>>]]

\* the extraction call of e ends with res, which is recorded
ExtractObserved(e, res) ==
    /\ ExtractEnds(e, res)
    /\ probe' = [e |-> e, res |-> res]

ExtractSpec ==
    ExtractInit /\ [][
        \/ \E e \in 1..MaxCalls, available \in BOOLEAN :
                ExtractStart(e, available)
        \/ \E e \in 1..MaxCalls, res \in ExtractResults :
                ExtractObserved(e, res)]_vars

\* -------------------------------------- the callback endpoint and routing
\* CallbackSpec: POST /api/clawdbot/callback for the two written forms of a
\* routing identity (platform, message type, chat id), on a ChannelManager
\* with the adapters main.py registers. probe holds the identity, the
\* registered adapters and what each form was resolved to.

\* "sep in s", s.split(sep) and sep.join(parts) on texts of characters
Has(s, sep) == \E i \in 1..Len(s) : s[i] = sep

RECURSIVE Split(_, _)
Split(s, sep) ==
    IF ~Has(s, sep) THEN <<s>>
    ELSE LET i == MinOf({k \in 1..Len(s) : s[k] = sep})
         IN  <<SubSeq(s, 1, i - 1)>> \o Split(SubSeq(s, i + 1, Len(s)), sep)

RECURSIVE Join(_, _)
Join(parts, sep) ==
    IF parts = <<>> THEN <<>>
    ELSE IF Len(parts) = 1 THEN parts[1]
    ELSE parts[1] \o <<sep>> \o Join(Tail(parts), sep)

\* a resolution: what the endpoint addressed, or why it did not
Resolution(status, platform, msg_type, chat_id) ==
    [status |-> status, platform |-> platform, msg_type |-> msg_type,
     chat_id |-> chat_id]

\* routes.py lines 110-136: the platform, the message type and the chat id
\* of a session id
ResolveSessionId(session_id) ==
    LET sep == IF Has(session_id, ":") THEN ":" ELSE "_"
        parts == Split(session_id, sep)
    IN  IF ~Has(session_id, ":") /\ ~Has(session_id, "_")
        THEN Resolution("unknown_format", <<>>, <<>>, <<>>)
        ELSE IF Len(parts) >= 3
        THEN Resolution("resolved", parts[1], parts[2],
                        Join(SubSeq(parts, 3, Len(parts)), sep))
        ELSE IF Len(parts) = 2
        THEN Resolution("resolved", parts[1], Private, parts[2])
        ELSE Resolution("invalid_format", <<>>, <<>>, <<>>)

\* the two written forms of a routing identity
ColonForm(platform, msg_type, chat_id) ==
    platform \o <<":">> \o msg_type \o <<":">> \o chat_id

UnderscoreForm(platform, msg_type, chat_id) ==
    platform \o <<"_">> \o msg_type \o <<"_">> \o chat_id

Platforms == {Chars("qq"), Chars("lark")}

NotAsked == Resolution("none", <<>>, <<>>, <<>>)

\* clawdbot_callback with the colon form of the identity
CallbackColon ==
    /\ probe.colon = NotAsked
    /\ probe' = [probe EXCEPT !.colon =
            ResolveSessionId(ColonForm(probe.platform, probe.msg_type,
                                       probe.chat_id))]
    /\ UNCHANGED <<calls, hist, memory, current_mode, tasks, extractions,
                   outbox, config>>

\* clawdbot_callback with the underscore form of the identity
CallbackUnderscore ==
    /\ probe.underscore = NotAsked
    /\ probe' = [probe EXCEPT !.underscore =
            ResolveSessionId(UnderscoreForm(probe.platform, probe.msg_type,
                                            probe.chat_id))]
    /\ UNCHANGED <<calls, hist, memory, current_mode, tasks, extractions,
                   outbox, config>>

CallbackSpec ==
    ProbeInit(
        {[platform |-> platform, msg_type |-> msg_type,
           chat_id |-> chat_id, colon |-> NotAsked,
           underscore |-> NotAsked] :
            platform \in Platforms, msg_type \in {Private, Group},
            chat_id \in SeqsUpTo({"1", "_", ":"}, MaxIdLen)})
    /\ [][CallbackColon \/ CallbackUnderscore]_vars

\* ------------------------------------------ the entry points that route
\* EndpointSpec: the four places that route by an identity given from
\* outside: POST /api/clawdbot/callback, POST /send_msg, the notification
\* callback of main.py and the inbound handler, on a ChannelManager with none,
\* one or both adapters registered. probe holds the registered adapters and
\* the last call with what it answered; each action is one call of an entry
\* point, with what channel.send_message of the adapter ends with.
Telegram == <<"t", "g">>

\* what channel.send_message(request) of a registered adapter can end with
SendOutcomes == {"True", "False", "Exception"}

\* ChannelManager.send_message: ValueError without an adapter of the platform
ManagerSend(channels, platform, outcome) ==
    IF platform \notin channels THEN "ValueError" ELSE outcome

Answer(answer, to, logged, raised) ==
    [answer |-> answer, to |-> to, logged |-> logged, raised |-> raised]

\* a handler that catches what an adapter raises, not the ValueError
CatchesAdapterErrors(exc) == exc = "Exception"

\* "except Exception as e" of clawdbot_callback
CallbackCatches(exc) == TRUE

\* the last call and its answer are recorded
Called(last) ==
    /\ probe' = [probe EXCEPT !.last = last]
    /\ UNCHANGED <<calls, hist, memory, current_mode, tasks, extractions,
                   outbox, config>>

\* routes.py lines 101-149
ClawdbotCallback(session_id, content, outcome) ==
    LET r == ResolveSessionId(session_id)
        sent == ManagerSend(probe.channels, r.platform, outcome)
        answer ==
            IF session_id = <<>> \/ ~content
            THEN Answer("ignored", <<>>, FALSE, FALSE)
            ELSE IF r.status # "resolved"
            THEN Answer("error", <<>>, FALSE, FALSE)
            ELSE IF sent \in {"ValueError", "Exception"}
            THEN IF CallbackCatches(sent)
                 THEN Answer("error", r.platform, TRUE, FALSE)
                 ELSE Answer("none", r.platform, FALSE, TRUE)
            ELSE Answer("success", r.platform, FALSE, FALSE)
    IN  Called([endpoint |-> "callback", session_id |-> session_id,
                platform |-> <<>>, content |-> content, answer |-> answer])

\* routes.py lines 67-84: success, or an HTTPException with status 400 for
\* the ValueError and 500 for a refused or failed send
SendMessageRoute(platform, outcome) ==
    LET sent == ManagerSend(probe.channels, platform, outcome)
        answer ==
            CASE sent = "True" -> Answer("success", platform, FALSE, FALSE)
              [] sent = "ValueError" ->
                    Answer("http_400", platform, FALSE, FALSE)
              [] OTHER -> Answer("http_500", platform, TRUE, FALSE)
    IN  Called([endpoint |-> "send_msg", session_id |-> <<>>,
                platform |-> platform, content |-> TRUE, answer |-> answer])

\* main.py lines 151-194: agent_notification_callback; lines 162-179 find
\* the target of the notification
AgentNotificationCallback(session_id, outcome) ==
    LET parts == Split(session_id, ":")
        r == IF ~Has(session_id, ":") \/ Len(parts) < 2
             THEN Resolution("resolved", Chars("qq"), Private, session_id)
             ELSE IF Len(parts) = 2
             THEN Resolution("resolved", parts[1], Private, parts[2])
             ELSE IF parts[2] \in {Private, Group}
             THEN Resolution("resolved", parts[1], parts[2],
                             Join(SubSeq(parts, 3, Len(parts)), ":"))
             ELSE Resolution("resolved", parts[1], Private,
                             Join(Tail(parts), ":"))
        sent == ManagerSend(probe.channels, r.platform, outcome)
        answer ==
            IF sent \in {"ValueError", "Exception"}
            THEN Answer("none", r.platform, TRUE, FALSE)
            ELSE Answer("returned", r.platform, FALSE, FALSE)
    IN  Called([endpoint |-> "notification", session_id |-> session_id,
                platform |-> <<>>, content |-> TRUE, answer |-> answer])

\* main.py lines 282-304: the reply of _handle_unified_message to the
\* platform of the message
HandleUnifiedMessage(platform, outcome) ==
    LET sent == ManagerSend(probe.channels, platform, outcome)
        answer ==
            IF sent \in {"ValueError", "Exception"}
            THEN Answer("none", platform, TRUE, FALSE)
            ELSE Answer("returned", platform, FALSE, FALSE)
    IN  Called([endpoint |-> "inbound", session_id |-> <<>>,
                platform |-> platform, content |-> TRUE, answer |-> answer])

\* the identities given to the entry points: empty, without a separator,
\* separators only, the two forms for registered and unregistered
\* platforms, two parts, and the session ids of the users
RoutingIds ==
    {<<>>, <<"1">>, <<":">>, <<"_">>, <<"q", "q", ":", "1">>}
        \cup {ColonForm(p, Private, <<"1">>) :
                    p \in Platforms \cup {Telegram}}
        \cup {UnderscoreForm(p, Group, <<"1">>) :
                    p \in Platforms \cup {Telegram}}
        \cup SessionIds

EndpointSpec ==
    ProbeInit(
        {[channels |-> channels,
           last |-> [endpoint |-> "none", session_id |-> <<>>,
                     platform |-> <<>>, content |-> FALSE,
                     answer |-> Answer("none", <<>>, FALSE, FALSE)]] :
            channels \in {{}, {Chars("qq")}, Platforms}})
    /\ [][
        \/ \E session_id \in RoutingIds, content \in BOOLEAN,
              outcome \in SendOutcomes :
                ClawdbotCallback(session_id, content, outcome)
        \/ \E platform \in Platforms \cup {Telegram, <<>>},
              outcome \in SendOutcomes : SendMessageRoute(platform, outcome)
        \/ \E session_id \in RoutingIds, outcome \in SendOutcomes :
                AgentNotificationCallback(session_id, outcome)
        \/ \E platform \in Platforms \cup {Telegram},
              outcome \in SendOutcomes :
                HandleUnifiedMessage(platform, outcome)]_vars

\* ------------------------------------------------------- ChannelManager
\* ManagerSpec: register_channel, set_global_handler, start_all and stop_all
\* on one ChannelManager. probe holds the channels dict (the adapter of each
\* name and the insertion order of the names), the global handler and the
\* progress of start_all and stop_all; latest and the sets of names are
\* history: the handler set last, the adapters registered when start_all or
\* stop_all began and the adapters whose start or stop was called.
Names == {"lark", "qq"}

ManagerStep(p) ==
    /\ probe' = p
    /\ UNCHANGED <<calls, hist, memory, current_mode, tasks, extractions,
                   outbox, config>>

\* a registration that never wires the handler
UnwiredAtRegistration(global_handler) == "none"

\* lines 24-26: "if self.global_handler: channel.register_handler(...)"
HandlerAtRegistration(global_handler) == global_handler

\* register_channel(name, channel) with a new adapter (BaseChannel.__init__:
\* no handler, not started), while neither start_all nor stop_all runs
RegisterChannel(name) ==
    /\ probe.start_all # "running" /\ probe.stop_all # "running"
    /\ probe.ops < MaxManagerOps
    /\ ManagerStep([probe EXCEPT
            !.channels[name] =
                [registered |-> TRUE,
                 message_handler |->
                    HandlerAtRegistration(probe.global_handler),
                 start |-> "none", stop |-> "none"],
            !.order = IF probe.channels[name].registered THEN @
                      ELSE Append(@, name),
            !.ops = @ + 1])

\* set_global_handler(handler), while neither start_all nor stop_all runs
SetGlobalHandler(handler) ==
    /\ probe.start_all # "running" /\ probe.stop_all # "running"
    /\ probe.ops < MaxManagerOps
    /\ ManagerStep([probe EXCEPT
            !.global_handler = handler,
            !.latest = handler,
            !.channels = [name \in Names |->
                IF probe.channels[name].registered
                THEN [probe.channels[name] EXCEPT !.message_handler = handler]
                ELSE probe.channels[name]],
            !.ops = @ + 1])

\* start_all up to "await asyncio.gather(*tasks)": one _start_channel per
\* registered adapter
StartAllBegins ==
    /\ probe.start_all = "idle"
    /\ probe.stop_all = "idle"
    /\ ManagerStep([probe EXCEPT
            !.start_all = "running",
            !.start_snapshot =
                {name \in Names : probe.channels[name].registered},
            !.channels = [name \in Names |->
                IF probe.channels[name].registered
                THEN [probe.channels[name] EXCEPT !.start = "pending"]
                ELSE probe.channels[name]]])

\* _start_channel(name, channel): channel.start() returns, or raises and
\* "except Exception as e" of _start_channel logs it, so that gather never
\* sees an exception
StartEnds(name, ok) ==
    /\ probe.channels[name].start = "pending"
    /\ ManagerStep([probe EXCEPT
            !.channels[name].start = IF ok THEN "started" ELSE "failed",
            !.start_called = @ \cup {name}])

\* gather returns when every _start_channel has ended
StartAllReturns ==
    /\ probe.start_all = "running"
    /\ \A name \in Names : probe.channels[name].start # "pending"
    /\ ManagerStep([probe EXCEPT !.start_all = "returned"])

\* stop_all up to the first "await channel.stop()"
StopAllBegins ==
    /\ probe.stop_all = "idle"
    /\ probe.start_all # "running"
    /\ ManagerStep([probe EXCEPT
            !.stop_all = "running",
            !.stop_snapshot =
                {name \in Names : probe.channels[name].registered}])

\* the adapter stop_all is at: the first of the dict that was not stopped
Pending == SelectSeq(probe.order, LAMBDA name : name \notin probe.stop_called)

\* a loop without the try: the exception leaves stop_all
StopUnguarded(ok) == ok

\* "except Exception as e" in the loop of stop_all
StopCatches(ok) == TRUE

\* one round of the loop: channel.stop() returns, or raises
StopEnds(ok) ==
    /\ probe.stop_all = "running"
    /\ Pending # <<>>
    /\ LET name == Head(Pending)
       IN  ManagerStep([probe EXCEPT
                !.channels[name].stop = IF ok THEN "stopped" ELSE "failed",
                !.stop_called = @ \cup {name},
                !.stop_all = IF StopCatches(ok) THEN @ ELSE "raised"])

\* the loop of stop_all is over
StopAllReturns ==
    /\ probe.stop_all = "running"
    /\ Pending = <<>>
    /\ ManagerStep([probe EXCEPT !.stop_all = "returned"])

ManagerSpec ==
    ProbeInit(
        {[channels |->
             [name \in Names |->
                 [registered |-> FALSE, message_handler |-> "none",
                  start |-> "none", stop |-> "none"]],
         order |-> <<>>,
         global_handler |-> "none", latest |-> "none", ops |-> 0,
         start_all |-> "idle", start_snapshot |-> {},
         start_called |-> {},
         stop_all |-> "idle", stop_snapshot |-> {}, stop_called |-> {}]})
    /\ [][
        \/ \E name \in Names : RegisterChannel(name)
        \/ \E handler \in {"h1", "h2"} : SetGlobalHandler(handler)
        \/ StartAllBegins
        \/ \E name \in Names, ok \in BOOLEAN : StartEnds(name, ok)
        \/ StartAllReturns
        \/ StopAllBegins
        \/ \E ok \in BOOLEAN : StopEnds(ok)
        \/ StopAllReturns]_vars

\* ------------------------------- the in-process store as a dictionary
\* ResetSpec: _memory_history as the dict it is (a session has a key or has
\* none), the memory files, and the reset branch of process_message on them.
\* probe holds max_history, the dict, the number of operations and the last
\* operation: its kind and user, what session_exists and get_history
\* returned, whether a reset succeeded, whether it found neither history nor
\* memory (fresh), whether it follows a reset of the same user (repeat,
\* removed: that one removed something) and the dict and the files before it.

\* memory_history.get(session_id, [])
DictGet(d, session_id) ==
    IF session_id \in DOMAIN d THEN d[session_id] ELSE <<>>

\* a clear that empties the list and keeps the key
DictClearKeepsKey(d, session_id) ==
    [k \in DOMAIN d |-> IF k = session_id THEN <<>> ELSE d[k]]

\* lines 212-214: "del memory_history[session_id]" when the key is there
DictClear(d, session_id) == [k \in DOMAIN d \ {session_id} |-> d[k]]

\* lines 268-269: "session_id in memory_history"
SessionExists(d, session_id) == session_id \in DOMAIN d

NoLast ==
    [kind |-> "none", user |-> <<>>, exists |-> FALSE, history |-> <<>>,
     success |-> FALSE, fresh |-> FALSE, repeat |-> FALSE, removed |-> FALSE,
     before_d |-> [k \in {} |-> <<>>], before_m |-> [f \in MemFiles |-> {}]]

\* add_message(session_id, role, content), memory branch, lines 122-128:
\* the key is created with an empty list, the message is appended, the list
\* is trimmed
DictAppend(u) ==
    /\ probe.ops < MaxOps
    /\ probe' = [probe EXCEPT
            !.memory_history =
                [k \in DOMAIN @ \cup {SessionId(u)} |->
                    IF k = SessionId(u)
                    THEN TrimHistory(Append(DictGet(@, k),
                                            StoreTurn(probe.ops + 1)),
                                     probe.max_history)
                    ELSE @[k]],
            !.ops = @ + 1,
            !.last = [NoLast EXCEPT !.kind = "add", !.user = UserId(u)]]
    /\ UNCHANGED <<calls, hist, memory, current_mode, tasks, extractions,
                   outbox, config>>

\* clear_session(session_id), memory branch
DictClears(u) ==
    /\ probe.ops < MaxOps
    /\ probe' = [probe EXCEPT
            !.memory_history = DictClear(@, SessionId(u)),
            !.ops = @ + 1,
            !.last = [NoLast EXCEPT !.kind = "clear", !.user = UserId(u)]]
    /\ UNCHANGED <<calls, hist, memory, current_mode, tasks, extractions,
                   outbox, config>>

\* session_exists(session_id) and get_history(session_id), memory branch
DictAsks(u) ==
    /\ probe.ops < MaxOps
    /\ probe' = [probe EXCEPT
            !.ops = @ + 1,
            !.last = [NoLast EXCEPT
                !.kind = "exists", !.user = UserId(u),
                !.exists = SessionExists(probe.memory_history, SessionId(u)),
                !.history = DictGet(probe.memory_history, SessionId(u))]]
    /\ UNCHANGED <<calls, hist, memory, current_mode, tasks, extractions,
                   outbox, config>>

\* save_user_memory(user_id, text) of an extraction for the user
MemorySaved(u) ==
    /\ probe.ops < MaxOps
    /\ memory' = SaveUserMemory(memory, Sanitize(RealUserId(UserId(u))),
                                {[about |-> {u}]})
    /\ probe' = [probe EXCEPT
            !.ops = @ + 1,
            !.last = [NoLast EXCEPT !.kind = "save", !.user = UserId(u)]]
    /\ UNCHANGED <<calls, hist, current_mode, tasks, extractions, outbox,
                   config>>

\* agent.py lines 97-109: clear_session, delete_user_memory, success
ResetCall(u) ==
    LET real_user_id == Sanitize(RealUserId(UserId(u)))
        d == probe.memory_history
        fresh == /\ ~SessionExists(d, SessionId(u))
                 /\ GetUserMemory(memory, real_user_id) = {}
        repeat == probe.last.kind = "reset" /\ probe.last.user = UserId(u)
    IN  /\ probe.ops < MaxOps
        /\ memory' = DeleteUserMemory(memory, real_user_id)
        /\ probe' = [probe EXCEPT
                !.memory_history = DictClear(d, SessionId(u)),
                !.ops = @ + 1,
                !.last = [NoLast EXCEPT
                    !.kind = "reset", !.user = UserId(u), !.success = TRUE,
                    !.fresh = fresh, !.repeat = repeat,
                    !.removed = repeat /\ ~probe.last.fresh,
                    !.before_d = d, !.before_m = memory]]
        /\ UNCHANGED <<calls, hist, current_mode, tasks, extractions, outbox,
                       config>>

ResetSpec ==
    ProbeInit(
        {[max_history |-> max_history,
           memory_history |-> [k \in {} |-> <<>>],
           ops |-> 0, last |-> NoLast] :
            max_history \in 0..MaxHistory})
    /\ [][
        \/ \E u \in Users : DictAppend(u)
        \/ \E u \in Users : DictClears(u)
        \/ \E u \in Users : DictAsks(u)
        \/ \E u \in Users : MemorySaved(u)
        \/ \E u \in Users : ResetCall(u)]_vars

\* --------------------------------------------- the ids of two messages
\* IdSpec: _get_session_ids for two messages of any platform, user, chat and
\* message type, each processed on one of two days. probe holds the two
\* messages, their days and the ids derived for them.
NoIds == [session_id |-> <<>>, callback_session_id |-> <<>>]

\* MessageProcessor.process derives the ids of message k
DeriveIds(k) ==
    /\ probe.ids[k] = NoIds
    /\ probe' = [probe EXCEPT
            !.ids[k] = GetSessionIds(probe.message[k], probe.day[k])]
    /\ UNCHANGED <<calls, hist, memory, current_mode, tasks, extractions,
                   outbox, config>>

IdSpec ==
    ProbeInit(
        {[message |-> <<m1, m2>>, day |-> <<d1, d2>>,
           ids |-> <<NoIds, NoIds>>] :
            m1, m2 \in [platform : Platforms, user_id : {<<"1">>, <<"2">>},
                        chat_id : {<<"1">>, <<"9">>},
                        message_type : {Private, Group}],
            d1, d2 \in {Today, <<"2", "0", "2", "6", "0", "2", "1", "5">>}})
    /\ [][\E k \in 1..2 : DeriveIds(k)]_vars

\* ------------------------------------------------ the QQ receive pipeline
\* QqSpec: the calls of Spec as the QQ channel makes them.  One step of the
\* pipeline is NapCatClient._handle_ws_messages reading a frame and awaiting
\* QQChannel._handle_qq_message, which awaits BaseChannel.on_message_received,
\* ClawdbotApplication._handle_unified_message, MessageProcessor.process and
\* Agent.process_message.  (The receipt the adapter posts to NapCat before it
\* converts the frame goes out through NapCatClient.send_message, its failure
\* is logged, and nothing the Agent reads depends on it.)

\* adapter.py lines 162-175: sender_name is the card, the nickname or the QQ
\* number, parsed['text'] the stripped text of the frame:
\*   content = f"[{sender_name}]: {parsed['text']}"
QqContent(sender_name, text) ==
    <<"[", sender_name, "]", ":", " ">> \o Strip(text)

\* NapCat delivers a message event of user u on the websocket: the frame
\* waits in the connection until the receive loop reads it.  during is the
\* set of the calls that are in flight when it arrives.  (The frames have a
\* text: a frame without one is dropped, adapter.py lines 133-134.)
WsFrameArrives(u, sender_name, text) ==
    /\ Len(probe.frames) < MaxCalls
    /\ probe' = [probe EXCEPT !.frames =
            Append(@, [user |-> u, sender_name |-> sender_name, text |-> text,
                       during |-> {c \in 1..Len(calls) :
                                        calls[c].pc # "done"}])]
    /\ UNCHANGED <<calls, hist, memory, current_mode, tasks, extractions,
                   outbox, config>>

\* client.py lines 80-92: "async for message in websocket" reads the next
\* frame only when "await self.message_handler(qq_message)" of the frame
\* before it has returned, and the handler returns when the call it made has
\* returned and the reply is sent.
HandleWsMessages ==
    /\ IF calls = <<>> THEN TRUE ELSE calls[Len(calls)].pc = "done"
    /\ Len(calls) < Len(probe.frames)
    /\ LET frame == probe.frames[Len(calls) + 1]
       IN  ProcessMessage(frame.user,
                          QqContent(frame.sender_name, frame.text))

QqSpec ==
    ProbeInit({[frames |-> <<>>]})
    /\ [][
        \/ \E u \in Users, sender_name \in {"1", "Ann"},
              text \in {<<"/reset">>, <<"debug">>} :
                WsFrameArrives(u, sender_name, text)
        \/ HandleWsMessages
        \/ \E c \in 1..MaxCalls, mk \in Markers, ok \in BOOLEAN :
                LlmFirstReturns(c, mk, ok)
        \/ \E c \in 1..MaxCalls : LlmRaises(c)
        \/ \E c \in 1..MaxCalls : NotifyReturns(c)
        \/ \E c \in 1..MaxCalls : NotifyRaises(c)
        \/ \E c \in 1..MaxCalls : SearchReturns(c)
        \/ \E c \in 1..MaxCalls, mk \in Markers : LlmSecondReturns(c, mk)
        \/ \E t \in 1..MaxCalls, outcome \in Outcomes : ToolCompletes(t, outcome)
        \/ \E e \in 1..MaxCalls, available \in BOOLEAN : ExtractStart(e, available)
        \/ \E e \in 1..MaxCalls, res \in ExtractResults : ExtractFinish(e, res)]_vars

\* ------------------------------------ a session at the default settings
\* SessionManager(max_history = 10)
DefaultMaxHistory == 10

\* CapSpec: the stretches of process_message that write one session, on an
\* Agent whose SessionManager and MemoryExtractor have the default settings,
\* in every order in which the calls on the session can run them.  probe
\* holds what the last stretch was, the length of the history before it,
\* whether the history had ever held max_history * 2 turns before it, and
\* whether it has spawned an extraction.

\* lines 201-202: a call stores the two intermediate turns of its search
CapSearchPersists ==
    LET sid == SessionId(CHOOSE u \in Users : u.uid = <<"1">>)
        h1 == AddMessageWith(hist, sid, Turn("assistant", "first"),
                             DefaultMaxHistory)
        h2 == AddMessageWith(h1, sid, Turn("user", "observation"),
                             DefaultMaxHistory)
    IN  /\ hist' = h2
        /\ probe' = [last |-> "search", before |-> Len(hist[sid]),
                     reached |-> probe.reached
                        \/ Len(hist[sid]) = DefaultMaxHistory * 2,
                     spawned |-> FALSE]
        /\ UNCHANGED <<calls, memory, current_mode, tasks, extractions,
                       outbox, config>>

\* lines 231-241: a successful call stores its two turns, reads the history
\* and asks should_trigger for its length
CapCallPersists ==
    LET sid == SessionId(CHOOSE u \in Users : u.uid = <<"1">>)
        h1 == AddMessageWith(hist, sid, Turn("user", "message"),
                             DefaultMaxHistory)
        h2 == AddMessageWith(h1, sid, Turn("assistant", "response"),
                             DefaultMaxHistory)
        updated_history == GetHistory(h2, sid)
    IN  /\ hist' = h2
        /\ probe' = [last |-> "call", before |-> Len(hist[sid]),
                     reached |-> probe.reached
                        \/ Len(hist[sid]) = DefaultMaxHistory * 2,
                     spawned |-> ShouldTriggerWith(Len(updated_history),
                                                  DefaultTriggerInterval)]
        /\ UNCHANGED <<calls, memory, current_mode, tasks, extractions,
                       outbox, config>>

\* line 99: a reset clears the session
CapClears ==
    LET sid == SessionId(CHOOSE u \in Users : u.uid = <<"1">>)
    IN  /\ hist' = ClearSession(hist, sid)
        /\ probe' = [last |-> "reset", before |-> Len(hist[sid]),
                     reached |-> probe.reached
                        \/ Len(hist[sid]) = DefaultMaxHistory * 2,
                     spawned |-> FALSE]
        /\ UNCHANGED <<calls, memory, current_mode, tasks, extractions,
                       outbox, config>>

CapSpec ==
    ProbeInit({[last |-> "none", before |-> 0, reached |-> FALSE,
                spawned |-> FALSE]})
    /\ [][CapSearchPersists \/ CapCallPersists \/ CapClears]_vars

\* ------------------------------------------------- replies to Lark chats
\* LarkSpec: what LarkChannel.send_message posts to the Lark API for the
\* requests it is given: the reply of _handle_unified_message to an inbound
\* Lark message and the requests of the /send_msg route.  probe holds the
\* inbound message and the requests sent, each with what was posted for it.
\* Texts are sequences of tokens, message types are words.

\* lark/adapter.py lines 76-109: the message type, the content and the kind
\* of receive id of the CreateMessageRequest built for a request
LarkSendMessage(request) ==
    LET body ==
          IF request.message_type = "text"
          THEN [msg_type |-> "text", key |-> "text",
                value |-> request.content]
          ELSE IF request.message_type = "image"
          THEN [msg_type |-> "image", key |-> "image_key",
                value |-> request.content]
          ELSE [msg_type |-> "text", key |-> "text",
                value |-> <<"[Unsupported type: ", request.message_type,
                           "] ">> \o request.content]
    IN  [receive_id_type |->
            IF request.chat_id[1] = "ou_" THEN "open_id" ELSE "chat_id",
         receive_id |-> request.chat_id,
         msg_type |-> body.msg_type, key |-> body.key, value |-> body.value]

\* main.py lines 282-296: the handler replies to the chat of the message
\* with the text of a successful result; the request copies the message
\* type of the message.  code_ok: the API answers with code 0.
HandleLarkReply(response_text, code_ok) ==
    LET reply == [chat_id |-> probe.message.chat_id,
                  content |-> response_text,
                  message_type |-> probe.message.message_type]
    IN  /\ Len(probe.sent) < MaxLarkSends
        /\ response_text # <<>>
        /\ probe' = [probe EXCEPT !.sent =
                Append(@, [via |-> "reply", request |-> reply,
                           posted |-> LarkSendMessage(reply),
                           returned |-> code_ok])]
        /\ UNCHANGED <<calls, hist, memory, current_mode, tasks, extractions,
                       outbox, config>>

\* routes.py lines 67-73: a request of the /send_msg route for the chat
LarkSendDirect(message_type, content, code_ok) ==
    LET req == [chat_id |-> probe.message.chat_id, content |-> content,
                message_type |-> message_type]
    IN  /\ Len(probe.sent) < MaxLarkSends
        /\ probe' = [probe EXCEPT !.sent =
                Append(@, [via |-> "send_msg", request |-> req,
                           posted |-> LarkSendMessage(req),
                           returned |-> code_ok])]
        /\ UNCHANGED <<calls, hist, memory, current_mode, tasks, extractions,
                       outbox, config>>

\* lark/adapter.py lines 274-287: the messages of the Lark adapter are
\* private (chat_type p2p) or group messages of a chat
LarkSpec ==
    ProbeInit(
        {[message |-> [platform |-> "lark", user_id |-> <<"ou_", "1">>,
                       chat_id |-> chat_id, message_type |-> message_type],
           sent |-> <<>>] :
            chat_id \in {<<"oc_", "7">>, <<"ou_", "1">>},
            message_type \in {"private", "group"}})
    /\ [][
        \/ \E response_text \in {<<"hello">>, <<"line", "\n", "two">>},
              code_ok \in BOOLEAN : HandleLarkReply(response_text, code_ok)
        \/ \E message_type \in {"text", "image", "private"},
              content \in {<<"hello">>, <<"img_1">>}, code_ok \in BOOLEAN :
                LarkSendDirect(message_type, content, code_ok)]_vars

\* --------------------------------------------------------------- claims
Last(s) == s[Len(s)]

Complete(c) == calls[c].pc = "done"

AllComplete == \A c \in 1..Len(calls) : Complete(c)

CallsOf(u) == {c \in 1..Len(calls) : calls[c].user = u}

\* a turn that a call of user u appends: its message or its search
\* observation as a user turn, or a response to it (or the acknowledgement
\* that replaces one) as an assistant turn, holding input of u only
OwnTurn(u, turn) ==
    /\ turn.content.call \in CallsOf(u)
    /\ turn.content.seen \subseteq {u}
    /\ \/ /\ turn.role = "user"
          /\ \/ turn.content = UserMessage(turn.content.call,
                                           calls[turn.content.call])
             \/ turn.content.t = "obs"
       \/ /\ turn.role = "assistant"
          /\ turn.content.t \in {"resp", "ack"}

\* C1: once all calls are complete, whatever their interleaving, the history
\* of each user's session holds only turns of that user's own calls (the
\* user's message and the responses to it), none of another user's call.
C1_SessionIsolation ==
    AllComplete =>
        \A u \in Users :
            \A i \in 1..Len(hist[SessionId(u)]) :
                OwnTurn(u, hist[SessionId(u)][i])

\* two calls of different users overlapped, both succeeded and both
\* sessions hold their turns
C1_Witness ==
    /\ AllComplete
    /\ \E c1, c2 \in 1..Len(calls) :
        /\ calls[c1].user # calls[c2].user
        /\ c1 \in calls[c2].during
        /\ calls[c1].result.success /\ calls[c2].result.success
        /\ calls[c1].appended > 0 /\ calls[c2].appended > 0
        /\ hist[calls[c1].session_id] # <<>>
        /\ hist[calls[c2].session_id] # <<>>

\* C2 (as claimed): the memory operations done on behalf of two distinct
\* identities never touch the same record, and a read on behalf of one only
\* returns what was written on its behalf: distinct identities map to
\* distinct memory files.
C2_DistinctMemoryKeys ==
    probe # <<>> =>
        /\ probe.touched[1] \cap probe.touched[2] = {}
        /\ \A i \in {1, 2} : \A f \in probe.read[i] : f.about = {probe.ids[i]}

\* C3: process_message never raises to its caller; a call in which the LLM
\* or the notification callback failed returns success = false with the
\* apology as text and an error field.
C3_NeverRaises ==
    \A c \in 1..Len(calls) :
        /\ calls[c].pc # "raised"
        /\ Complete(c) /\ calls[c].fault # "none" =>
                /\ ~calls[c].result.success
                /\ calls[c].result.text = ApologyText(c)
                /\ calls[c].result.error
        /\ Complete(c) /\ ~calls[c].result.success =>
                /\ calls[c].fault # "none"
                /\ calls[c].result.text.t = "apology"

\* calls have failed on the first LLM call, on the notification and on the
\* second LLM call, and have returned
C3_Witness ==
    \E c, d \in 1..Len(calls) :
        /\ Complete(c) /\ calls[c].fault = "notify"
        /\ Complete(d) /\ calls[d].fault \in {"llm1", "llm2"}
        /\ ~calls[c].result.success /\ ~calls[d].result.success

\* C4 (as claimed): whenever a call returns a failure result, the apology is
\* sent as a reply to the chat the message came from.
C4_FailureIsReplied ==
    \A c \in 1..Len(calls) :
        Complete(c) /\ ~calls[c].result.success =>
            \E i \in 1..Len(outbox[calls[c].callback_session_id]) :
                outbox[calls[c].callback_session_id][i].content
                    = calls[c].result.text

\* the step in which call c is submitted
SubmitsNow(c) == Len(calls') = Len(calls) + 1 /\ c = Len(calls')

\* the step in which call c returns
CompletesNow(c) ==
    /\ c \in 1..Len(calls')
    /\ calls'[c].pc = "done"
    /\ c > Len(calls) \/ calls[c].pc # "done"

Pad(n) == [i \in 1..n |-> " "]

\* the texts whose trimmed form is one of the four reset keywords
TrimmedKeywordTexts ==
    {Pad(i) \o <<k>> \o Pad(j) :
        i \in 0..2, j \in 0..2,
        k \in {"/reset", "/clear", "chongzhi", "qingchujiyi"}}

\* C5: a message whose trimmed text is a reset keyword clears the history of
\* its session and the memory record of its user, returns the canned
\* confirmation with success = true, invokes no LLM and appends no turn; a
\* message that only contains a keyword among other words resets nothing.
C5_ResetKeyword ==
    [][\A c \in 1..MaxCalls :
        SubmitsNow(c) =>
            LET cr == calls'[c]
            IN  IF cr.text \in TrimmedKeywordTexts
                THEN /\ hist' = [hist EXCEPT ![cr.session_id] = <<>>]
                     /\ memory' = [memory EXCEPT
                                     ![MemoryKey(UserId(cr.user))] = {}]
                     /\ cr.pc = "done"
                     /\ cr.result = [success |-> TRUE, text |-> ResetText,
                                     mode |-> "conversation",
                                     error |-> FALSE]
                     /\ cr.llm = 0
                     /\ cr.appended = 0
                ELSE /\ hist' = hist
                     /\ memory' = memory
                     /\ cr.pc # "done"
                     /\ cr.result.text # ResetText]_vars

\* a padded keyword has been processed after an earlier call of the same
\* user had returned and its extracted profile had been saved: the history
\* and the memory record it cleared were not empty
C5_Witness ==
    \E c, d \in 1..Len(calls) :
        /\ calls[c].text = <<" ", "/reset", " ">>
        /\ calls[d].user = calls[c].user
        /\ d \notin calls[c].during /\ d < c
        /\ calls[d].appended > 0
        /\ extractions[d].state = "saved"
        /\ calls[c].result.text = ResetText
        /\ hist[calls[c].session_id] = <<>>
        /\ memory[MemoryKey(UserId(calls[c].user))] = {}

ToolTextKinds == {"tool_result", "tool_error"}

\* C6: when the latest response carries a Clawdbot marker and both the tool
\* and the callback are configured, the call spawns exactly one background
\* task and returns the acknowledgement while the task is still pending; in
\* every other case no task is spawned and the response text is returned as
\* it is; no return value ever holds the output of the tool.
C6_DeferredDispatch ==
    [][/\ \A c \in 1..MaxCalls :
            CompletesNow(c) /\ calls'[c].latest # NoResponse
                            /\ calls'[c].result.success =>
                LET cr == calls'[c]
                    r == cr.latest
                IN  IF r.claw = "Clawdbot" /\ config.tool
                                           /\ config.callback # "none"
                    THEN /\ tasks[c] = NoTask
                         /\ tasks'[c].state = "pending"
                         /\ tasks'[c].task = r.n
                         /\ cr.spawned = 1
                         /\ cr.result.text = AckText(r)
                    ELSE /\ tasks'[c] = NoTask
                         /\ cr.spawned = 0
                         /\ cr.result.text = r
       /\ \A c \in 1..Len(calls') :
            calls'[c].result.text.t \notin ToolTextKinds]_vars

\* a call has returned the acknowledgement and its task has not ended
C6_Witness ==
    \E c \in 1..Len(calls) :
        /\ Complete(c)
        /\ calls[c].latest.claw = "Clawdbot"
        /\ calls[c].result.text = AckText(calls[c].latest)
        /\ calls[c].spawned = 1
        /\ tasks[c].state = "pending"

\* C7 (as claimed): every background task that has ended, by a reply, a
\* status other than 200, a timeout or an exception, has delivered a
\* notification through the callback, be the callback a plain function or a
\* coroutine function. (A request the wrapper accepted in callback mode is
\* answered by the wrapper itself and is left out.)
C7_TaskNotifies ==
    \A t \in 1..MaxCalls :
        tasks[t].state = "done" /\ tasks[t].outcome # "accepted" =>
            /\ tasks[t].notified = 1
            /\ \E i \in 1..Len(outbox[tasks[t].session_id]) :
                    outbox[tasks[t].session_id][i].via = "callback"

\* C8 (as claimed): a call invokes the LLM at most twice: once when the first
\* response has no Search marker, twice when it has one; the search is run at
\* most once, so a Search marker in the second response is never acted on.
C8_LlmInvocations ==
    \A c \in 1..Len(calls) :
        Complete(c) /\ calls[c].first # NoResponse =>
            /\ calls[c].llm <= 2
            /\ calls[c].searches <= 1
            /\ calls[c].first.search = "none" => calls[c].llm = 1
            /\ calls[c].first.search # "none" => calls[c].llm = 2

\* C9: when the first response carried a Search marker and the second one
\* carries a Clawdbot marker, the Clawdbot scan matches the second response
\* and, the tool and the callback being configured, its task is dispatched;
\* the scan is applied to the latest response only, and the search is not run
\* again after it.
C9_SearchThenClawdbot ==
    \A c \in 1..Len(calls) :
        Complete(c) /\ calls[c].result.success
                    /\ calls[c].latest # NoResponse =>
            LET cr == calls[c]
            IN  /\ cr.latest.n = cr.llm
                /\ cr.searches <= 1
                /\ cr.matched # 0 <=> cr.latest.claw = "Clawdbot"
                /\ cr.matched # 0 => cr.matched = cr.latest.n
                /\ cr.searches = 1 /\ cr.latest.claw = "Clawdbot" =>
                        /\ cr.matched = 2
                        /\ config.tool /\ config.callback # "none" =>
                                /\ tasks[c].state # "none"
                                /\ tasks[c].task = 2
                                /\ cr.result.text = AckText(cr.latest)

\* a call has searched, has got a second response with a Clawdbot marker and
\* has dispatched the task of that response
C9_Witness ==
    \E c \in 1..Len(calls) :
        /\ Complete(c)
        /\ calls[c].searches = 1
        /\ calls[c].first.search = "Search"
        /\ calls[c].latest.n = 2
        /\ calls[c].latest.claw = "Clawdbot"
        /\ tasks[c].task = 2
        /\ calls[c].result.text.t = "ack"

\* C10: a successful call that is not a reset ends by appending to its
\* session the user turn with exactly the text it received, immediately
\* followed by the assistant turn with the text it returns; when a task was
\* dispatched that text is the acknowledgement, not the response with the
\* marker.
C10_TurnPair ==
    [][\A c \in 1..MaxCalls :
        CompletesNow(c) /\ calls'[c].latest # NoResponse
                        /\ calls'[c].result.success =>
            LET cr == calls'[c]
                sid == cr.session_id
                user_turn == Turn("user", Content("msg", c, 0, cr.text,
                                                  NoMark, {cr.user}))
                pair == <<user_turn, Turn("assistant", cr.result.text)>>
                whole == hist[sid] \o pair
            IN  /\ Len(hist'[sid]) >= 2
                /\ SubSeq(hist'[sid], Len(hist'[sid]) - 1, Len(hist'[sid]))
                      = pair
                /\ hist'[sid] = SubSeq(whole,
                                       Len(whole) - Len(hist'[sid]) + 1,
                                       Len(whole))
                /\ \A s \in SessionIds \ {sid} : hist'[s] = hist[s]
                /\ tasks'[c].state = "pending" /\ tasks[c].state = "none" =>
                        cr.result.text = AckText(cr.latest)]_vars

\* a call has returned the acknowledgement and the last two turns of its
\* session are its message and the acknowledgement
C10_Witness ==
    \E c \in 1..Len(calls) :
        /\ Complete(c)
        /\ calls[c].result.text.t = "ack"
        /\ Len(hist[calls[c].session_id]) >= 2
        /\ Last(hist[calls[c].session_id])
              = Turn("assistant", calls[c].result.text)
        /\ hist[calls[c].session_id][Len(hist[calls[c].session_id]) - 1]
              = Turn("user", UserMessage(c, calls[c]))

\* the list of a session in the store the manager uses
Stored(session_id) ==
    IF ClientOf(probe) THEN probe.redis[session_id] ELSE hist[session_id]

IsSuffix(a, b) ==
    /\ Len(a) <= Len(b)
    /\ a = SubSeq(b, Len(b) - Len(a) + 1, Len(b))

\* C11 (as claimed): for every max_history >= 0, after each append the stored
\* history of a session has at most 2 * max_history turns, and they are the
\* most recently appended turns in their original order.
C11_TrimBound ==
    \A s \in SessionIds :
        /\ Len(Stored(s)) <= 2 * probe.max_history
        /\ IsSuffix(Stored(s), probe.all[s])

\* the step is an operation of the manager (not a change of the server)
StoreStep == probe'.ops = probe.ops + 1

\* C12: in the in-process store an append or a clear on one session id leaves
\* the history of every other session id unchanged (a read changes none), an
\* append puts its turn last, a clear empties the session, and the turns of a
\* session are in the order in which their appends were made.
C12_FrameAndOrder ==
    [][StoreStep /\ ~ClientOf(probe') =>
        LET sid == probe'.op.session_id
            kind == probe'.op.kind
        IN  /\ \A s \in SessionIds \ {sid} : hist'[s] = hist[s]
            /\ kind = "get" => hist' = hist
            /\ kind = "clear" => hist'[sid] = <<>>
            /\ kind = "add" =>
                    /\ hist'[sid] # <<>>
                    /\ Last(hist'[sid]) = StoreTurn(probe'.ops)
                    /\ IsSuffix(hist'[sid],
                                Append(hist[sid], StoreTurn(probe'.ops)))
            /\ \A s \in SessionIds : IsSuffix(hist'[s], probe'.all[s])]_vars

\* one session has been cleared in the in-process store while the other one
\* keeps the turns appended to it
C12_Witness ==
    /\ probe # <<>>
    /\ ~ClientOf(probe)
    /\ probe.op.kind = "clear"
    /\ probe.all[probe.op.session_id] = <<>>
    /\ \E s \in SessionIds \ {probe.op.session_id} :
            /\ Len(hist[s]) >= 2
            /\ hist[s][1].content < hist[s][2].content

\* C13: when Redis is enabled and the first connection attempt fails, every
\* later operation works on the in-process store, no Redis command is sent
\* and no connection is attempted again.
C13_PermanentFallback ==
    [][/\ StoreStep /\ probe.redis_enabled /\ probe.pings = 0 /\ ~probe.up =>
            /\ probe'.redis_connection_failed
            /\ probe'.pings = 1
       /\ probe.redis_connection_failed =>
            /\ probe'.redis_connection_failed
            /\ ~probe'.redis_client
            /\ probe'.pings = probe.pings
            /\ probe'.errors = probe.errors
            /\ probe'.redis = probe.redis
            /\ StoreStep /\ probe'.op.kind = "get" =>
                    probe'.read = hist[probe'.op.session_id]
            /\ StoreStep /\ probe'.op.kind = "add" =>
                    Last(hist'[probe'.op.session_id]) = StoreTurn(probe'.ops)
            /\ StoreStep /\ probe'.op.kind = "clear" =>
                    hist'[probe'.op.session_id] = <<>>]_vars

\* the connection attempt has failed, the server answers again, and a read
\* has returned turns from the in-process store
C13_Witness ==
    /\ probe # <<>>
    /\ probe.redis_enabled
    /\ probe.redis_connection_failed
    /\ probe.up
    /\ probe.pings = 1
    /\ probe.op.kind = "get"
    /\ probe.read # <<>>
    /\ probe.read = hist[probe.op.session_id]

\* C14 (as claimed): a read returns a history that ends with the turn
\* appended last to the session, also when the append was made while a
\* connected Redis did not answer, and at most one Redis command ever fails:
\* the failing store is not tried again on each call.
C14_OutageFallback ==
    /\ probe.errors <= 1
    /\ probe.op.kind = "get" /\ probe.all[probe.op.session_id] # <<>> =>
            /\ probe.read # <<>>
            /\ Last(probe.read) = Last(probe.all[probe.op.session_id])

\* C15 (as claimed): a read for a user returns the trimmed text of the latest
\* save for that user that no delete followed, and the empty text when there
\* is none: a save or a delete for one user never changes what is read for
\* another.
C15_AtomicRegister ==
    probe.op.kind = "get" =>
        probe.read = Strip(probe.latest[probe.op.id])

\* C16: a call that spawns a memory extraction returns while the extraction
\* has not run, and the result it returned (success, text, mode) is the same
\* after the extraction has saved a profile, has rejected one, has got a
\* failure or an exception: no step of an extraction changes a call.
C16_ExtractionDetached ==
    [][/\ \A c \in 1..MaxCalls :
            CompletesNow(c) /\ extractions'[c] # extractions[c] =>
                /\ extractions[c] = NoExtraction
                /\ extractions'[c].state = "spawned"
       /\ \A c \in 1..Len(calls) :
            calls[c].pc = "done" => calls'[c].result = calls[c].result
       /\ (extractions' # extractions /\ \A c \in 1..MaxCalls : ~CompletesNow(c))
            => calls' = calls /\ outbox' = outbox /\ hist' = hist]_vars

\* two calls have returned a reply, the extraction of one has saved a profile
\* and the extraction of the other has failed
C16_Witness ==
    \E c, d \in 1..Len(calls) :
        /\ Complete(c) /\ Complete(d)
        /\ calls[c].result.success /\ calls[d].result.success
        /\ calls[c].result.text.t = "resp"
        /\ extractions[c].state = "saved"
        /\ extractions[d].state = "failed"

\* the number of characters of a response that are not blanks
Characters(response) == Len(SelectSeq(response, LAMBDA ch : ch # " "))

\* C17: an extraction whose LLM is unavailable, whose call fails or raises,
\* or whose response has fewer than 20 characters once trimmed leaves the
\* memory as it is and ends with failure; only a response of at least 20
\* characters overwrites the record of the user.
C17_ExtractionValidated ==
    [][\A e \in 1..MaxCalls :
        extractions'[e] # extractions[e] =>
            LET x == extractions[e]
                res == probe'.res
            IN  IF /\ x.state = "asking"
                   /\ res.outcome = "success"
                   /\ Characters(res.response) >= 20
                THEN /\ extractions'[e].state = "saved"
                     /\ memory' = [memory EXCEPT ![SafeUid(x.user_id)] =
                            x.existing \cup {[src |-> e, about |-> x.about]}]
                ELSE /\ memory' = memory
                     /\ extractions'[e].state \in {"asking", "failed"}
                     /\ x.state = "asking" =>
                            extractions'[e].state = "failed"]_vars

\* a response of 19 characters and a blank has been rejected and the record
\* of the user is the one that existed
C17_Witness ==
    /\ probe # <<>>
    /\ probe.e \in 1..MaxCalls
    /\ probe.res.outcome = "success"
    /\ Len(probe.res.response) = 20
    /\ Characters(probe.res.response) = 19
    /\ extractions[probe.e].state = "failed"
    /\ extractions[probe.e].existing = OldMemory
    /\ memory[SafeUid(extractions[probe.e].user_id)] = OldMemory

\* C18: should_trigger(n) is true exactly when n > 0 and n is a multiple of
\* the interval (10 by default: false for 0 and 9, true for 10 and 20), and a
\* call spawns an extraction exactly when that holds for the length of the
\* history of its session read after its two turns are persisted.
C18_TriggerRule ==
    [][/\ {n \in 0..25 : ShouldTriggerWith(n, DefaultTriggerInterval)}
            = {10, 20}
       /\ \A c \in 1..MaxCalls :
            CompletesNow(c) /\ calls'[c].latest # NoResponse
                            /\ calls'[c].result.success =>
                LET n == Len(hist'[calls'[c].session_id])
                IN  (extractions'[c].state = "spawned")
                        <=> (n > 0 /\ n % TriggerInterval = 0)
       /\ \A c \in 1..MaxCalls :
            extractions[c] = NoExtraction /\ extractions'[c] # NoExtraction =>
                /\ CompletesNow(c)
                /\ calls'[c].result.success
                /\ calls'[c].latest # NoResponse]_vars

\* one call has returned with a history of the interval's length and has
\* spawned an extraction, another has returned with a shorter one and has not
C18_Witness ==
    \E c, d \in 1..Len(calls) :
        /\ Complete(c) /\ Complete(d)
        /\ calls[c].result.success /\ calls[d].result.success
        /\ calls[d].latest # NoResponse
        /\ extractions[c].state = "spawned"
        /\ Len(hist[calls[c].session_id]) = TriggerInterval
        /\ extractions[d] = NoExtraction
        /\ Len(hist[calls[d].session_id]) = 2

\* C19 (as claimed): the mode in the result of a call is the mode classified
\* from the text of that call ("Explain" is an explanation request, "/reset
\* debug" a debugging one), when the call succeeds and when it fails, whatever
\* calls of other users were interleaved with it.
C19_ModeOfOwnText ==
    \A c \in 1..Len(calls) :
        Complete(c) /\ calls[c].mode # "none" =>
            /\ calls[c].result.mode = calls[c].mode
            /\ calls[c].text = <<"Explain">> =>
                    calls[c].result.mode = "code_explanation"
            /\ calls[c].text = <<"/reset", " ", "debug">> =>
                    calls[c].result.mode = "debugging"

\* the content of a marker as the branch uses it: without the blanks at its
\* ends
Trimmed(content) ==
    IF Last(content) = " " THEN SubSeq(content, 1, Len(content) - 1)
    ELSE content

\* C20 (as claimed): a text with the Search keyword in any letter case is
\* matched by the Search scan and a text with the Clawdbot keyword in any
\* letter case by the Clawdbot scan, each with the content up to the first
\* closing bracket, line breaks included.
C20_AnyCaseMarkers ==
    /\ ("search" \in probe.scanned
            /\ probe.keyword \in {"Search", "search", "SEARCH"}) =>
                /\ probe.search.matched
                /\ probe.search.group = Trimmed(probe.content)
    /\ ("clawdbot" \in probe.scanned
            /\ probe.keyword \in {"Clawdbot", "clawdbot", "CLAWDBOT"}) =>
                /\ probe.clawdbot.matched
                /\ probe.clawdbot.group = Trimmed(probe.content)

\* the callback messages that reached a chat, and the calls they come from
CallbackMessages(chat) ==
    {outbox[chat][i] : i \in {j \in 1..Len(outbox[chat]) :
                                    outbox[chat][j].via = "callback"}}

Routed(c) ==
    IF calls[c].callback_session_id # <<>> THEN calls[c].callback_session_id
    ELSE calls[c].session_id

\* C21: the search notice and the deferred tool (its dispatch and the result
\* it delivers) of a call are addressed with the callback session id of the
\* call when it has one, and with its session id only when it has none; the
\* session key of a call that has a callback session id receives no
\* notification of it.
C21_CallbackRouting ==
    /\ \A c \in 1..Len(calls) :
            tasks[c].state # "none" => tasks[c].session_id = Routed(c)
    /\ \A chat \in Chats : \A m \in CallbackMessages(chat) :
            /\ m.content.call \in 1..Len(calls)
            /\ chat = Routed(m.content.call)
            /\ calls[m.content.call].callback_session_id # <<>>
                    => chat # calls[m.content.call].session_id

\* a call with a callback session id whose notice went out, and a call
\* without one whose tool delivered its result
C21_Witness ==
    /\ \E chat \in Chats : \E m \in CallbackMessages(chat) :
            /\ m.content.t = "notice"
            /\ calls[m.content.call].callback_session_id = chat
    /\ \E chat \in Chats : \E m \in CallbackMessages(chat) :
            /\ m.content.t = "tool_result"
            /\ calls[m.content.call].callback_session_id = <<>>
            /\ calls[m.content.call].session_id = chat

\* the lower-cased text of the probed message
LowerCased == LowerStr(probe.message)

\* a keyword of the list occurs in the text low
OccursIn(low, kws) ==
    \E kw \in kws : \E i \in 1..Len(low) :
        /\ i + Len(kw) - 1 <= Len(low)
        /\ SubSeq(low, i, i + Len(kw) - 1) = kw

ClassOf(low) ==
    LET explanation == OccursIn(low, ExplainKeywords)
        generation == OccursIn(low, CodeKeywords)
        debugging == OccursIn(low, DebugKeywords)
    IN  CASE explanation -> "code_explanation"
          [] ~explanation /\ generation -> "code_generation"
          [] ~explanation /\ ~generation /\ debugging -> "debugging"
          [] OTHER -> "conversation"

\* C22: the class of a message is a function of its lower-cased text with a
\* fixed priority: code_explanation when an explanation keyword occurs in it,
\* whatever else occurs; else code_generation when a code-generation keyword
\* occurs; else debugging when a debugging keyword occurs; else conversation.
\* Detecting again gives the same class, and the lower-cased text has the
\* class of the message.
C22_ClassifyPriority ==
    LET low == LowerCased
        class == ClassOf(low)
    IN  /\ probe.intent # "none" =>
                /\ probe.intent = class
                /\ DetectIntent(low) = class
        /\ probe.mode # "none" =>
                /\ probe.again = probe.intent
                /\ probe.mode = class

\* a message with upper-case letters that holds a keyword of each list and
\* is classified as code_explanation
C22_Witness ==
    /\ probe.intent = "code_explanation"
    /\ OccursIn(LowerCased, CodeKeywords)
    /\ OccursIn(LowerCased, DebugKeywords)
    /\ probe.message # LowerCased
    /\ probe.mode = "code_explanation"

\* C23: the message list built for the LLM is one system entry, then every
\* turn of the history in its order, then the new user message: it has
\* len(history) + 2 entries and no turn is dropped, duplicated or moved.
C23_PromptOrder ==
    probe.prompt # <<>> =>
        /\ Len(probe.prompt) = Len(probe.history) + 2
        /\ probe.prompt[1] = [role |-> "system", content |-> "sys"]
        /\ \A i \in 1..Len(probe.history) :
                probe.prompt[i + 1] = probe.history[i]
        /\ probe.prompt[Len(probe.prompt)] =
                [role |-> "user", content |-> probe.message]

\* a prompt built from a full history with turns of the three roles and two
\* equal turns
C23_Witness ==
    /\ probe.prompt # <<>>
    /\ Len(probe.history) = MaxTurns
    /\ {probe.history[i].role : i \in 1..MaxTurns} =
            {"user", "assistant", "system"}
    /\ \E i, j \in 1..MaxTurns : i # j /\ probe.history[i] = probe.history[j]

\* the identity of the probe as a resolution
Identity ==
    [status |-> "resolved", platform |-> probe.platform,
     msg_type |-> probe.msg_type, chat_id |-> probe.chat_id]

\* C24: for every platform, message type (private, group) and chat id, the
\* callback endpoint resolves the colon form and the underscore form of the
\* identity to the same triple, the identity itself.
C24_BothFormsResolve ==
    /\ probe.colon # NotAsked => probe.colon = Identity
    /\ probe.underscore # NotAsked => probe.underscore = Identity
    /\ (probe.colon # NotAsked /\ probe.underscore # NotAsked)
            => probe.colon = probe.underscore

\* whether a text has one of the separators of the callback endpoint
Separated(session_id) ==
    \E i \in 1..Len(session_id) : session_id[i] \in {":", "_"}

\* C25: an identity that cannot be parsed or that names a platform without a
\* registered adapter is answered with an error result by the callback
\* endpoint (a missing identity or content is answered as ignored) and by
\* the send endpoint, and with a logged failure by the notification callback
\* and the inbound handler; no entry point raises.
C25_RoutingErrorsHandled ==
    LET last == probe.last
        answer == last.answer
    IN  /\ ~answer.raised
        /\ last.endpoint = "callback" =>
                /\ answer.answer \in {"success", "error", "ignored"}
                /\ answer.answer = "ignored"
                        <=> (last.session_id = <<>> \/ ~last.content)
                /\ (last.session_id # <<>> /\ last.content
                        /\ ~Separated(last.session_id))
                        => answer.answer = "error"
                /\ answer.answer = "success" => answer.to \in probe.channels
        /\ last.endpoint = "send_msg" =>
                /\ answer.answer \in {"success", "http_400", "http_500"}
                /\ last.platform \notin probe.channels
                        => answer.answer = "http_400"
        /\ last.endpoint \in {"notification", "inbound"} =>
                (answer.to \notin probe.channels => answer.logged)

\* the callback endpoint was given the identity of a platform that has no
\* adapter and answered with an error
C25_Witness ==
    /\ probe.last.endpoint = "callback"
    /\ probe.last.session_id = ColonForm(Telegram, Private, <<"1">>)
    /\ probe.last.content
    /\ probe.channels # {}
    /\ probe.last.answer.answer = "error"
    /\ probe.last.answer.to = Telegram

\* C26: start_all calls start of every registered adapter and stop_all calls
\* stop of every registered adapter, whatever the other adapters' start or
\* stop raised, and neither start_all nor stop_all raises.
C26_StartStopAll ==
    /\ probe.start_all # "raised"
    /\ probe.stop_all # "raised"
    /\ probe.start_all = "returned" =>
            probe.start_called = probe.start_snapshot
    /\ probe.stop_all = "returned" =>
            probe.stop_called = probe.stop_snapshot

\* start_all and stop_all returned with two adapters: the start of one and
\* the stop of the first of the dict raised, the other was started and the
\* second was stopped
C26_Witness ==
    /\ probe.start_all = "returned"
    /\ probe.stop_all = "returned"
    /\ Len(probe.order) = 2
    /\ \E a, b \in Names :
            /\ probe.channels[a].start = "failed"
            /\ probe.channels[b].start = "started"
    /\ probe.channels[probe.order[1]].stop = "failed"
    /\ probe.channels[probe.order[2]].stop = "stopped"

\* C27: once a global handler has been set, the inbound handler of every
\* registered adapter is the global handler set last, also for the adapters
\* registered after it was set.
C27_GlobalHandlerWired ==
    probe.latest # "none" =>
        \A name \in Names :
            probe.channels[name].registered
                => probe.channels[name].message_handler = probe.latest

\* an adapter registered before, and one registered after the handler was set
\* a second time
C27_Witness ==
    /\ probe.latest = "h2"
    /\ probe.ops = 4
    /\ \A name \in Names : probe.channels[name].registered
    /\ probe.channels["qq"].message_handler = "h2"
    /\ probe.channels["lark"].message_handler = "h2"

\* the session and the memory file of the user of the last operation
LastSession ==
    CHOOSE s \in SessionIds :
        \E u \in Users : UserId(u) = probe.last.user /\ s = SessionId(u)

LastFile ==
    CHOOSE f \in MemFiles :
        \E u \in Users : UserId(u) = probe.last.user /\ f = MemoryKey(UserId(u))

\* C28: a reset succeeds, also on a session without history and memory, and
\* leaves the history empty, exists false and no memory; a reset that follows
\* a reset of the same user leaves the sessions and the memory files as they
\* were after the first; and in the in-process store exists is true exactly
\* for the sessions with a non-empty history, whatever was appended and
\* cleared.
C28_ResetAndExists ==
    /\ probe.last.kind = "reset" =>
            /\ probe.last.success
            /\ LastSession \notin DOMAIN probe.memory_history
            /\ memory[LastFile] = {}
    /\ (probe.last.kind = "reset" /\ probe.last.repeat) =>
            /\ probe.memory_history = probe.last.before_d
            /\ memory = probe.last.before_m
    /\ probe.last.kind = "exists" =>
            (probe.last.exists <=> probe.last.history # <<>>)
    /\ \A s \in DOMAIN probe.memory_history : probe.memory_history[s] # <<>>

\* the second of two resets of a user who had history and memory, while the
\* other user has a history
C28_Witness ==
    /\ probe.last.kind = "reset"
    /\ probe.last.repeat
    /\ probe.last.fresh
    /\ probe.last.removed
    /\ DOMAIN probe.memory_history # {}

\* C29: the session ids of two messages of one platform and user processed
\* on one day are equal, whatever their chats and message types; the
\* callback session ids of two messages of one platform, message type and
\* chat are equal, whatever their users and days; the session id ends with
\* the fixed version suffix.
C29_IdDerivation ==
    LET m1 == probe.message[1]
        m2 == probe.message[2]
        v1 == probe.ids[1].session_id
    IN  (probe.ids[1].session_id # <<>> /\ probe.ids[2].session_id # <<>>) =>
            /\ (/\ m1.platform = m2.platform
                /\ m1.user_id = m2.user_id
                /\ probe.day[1] = probe.day[2])
                    => probe.ids[1].session_id = probe.ids[2].session_id
            /\ (/\ m1.platform = m2.platform
                /\ m1.message_type = m2.message_type
                /\ m1.chat_id = m2.chat_id)
                    => probe.ids[1].callback_session_id
                            = probe.ids[2].callback_session_id
            /\ SubSeq(v1, Len(v1) - 2, Len(v1)) = <<":", "v", "2">>

\* one user on one day in a private and in a group chat, and one chat on two
\* days
C29_Witness ==
    /\ probe.ids[1].session_id # <<>>
    /\ probe.ids[2].session_id # <<>>
    /\ probe.message[1].user_id = probe.message[2].user_id
    /\ probe.message[1].platform = probe.message[2].platform
    /\ probe.message[1].chat_id # probe.message[2].chat_id
    /\ probe.message[1].message_type # probe.message[2].message_type
    /\ probe.day[1] = probe.day[2]
    /\ probe.ids[1].session_id = probe.ids[2].session_id
    /\ probe.ids[1].callback_session_id # probe.ids[2].callback_session_id

\* a call on the session is in flight
InFlight(s) ==
    \E c \in 1..Len(calls) : calls[c].session_id = s /\ calls[c].pc # "done"

\* a history of complete pairs: a user turn, then the assistant turn of the
\* same call
CompletePairs(h) ==
    /\ Len(h) % 2 = 0
    /\ \A i \in 1..Len(h) :
            IF i % 2 = 1 THEN h[i].role = "user"
            ELSE /\ h[i].role = "assistant"
                 /\ h[i].content.call = h[i - 1].content.call

\* C30: whenever no call is in flight for a session, its stored history is a
\* sequence of complete pairs, a user turn immediately followed by its
\* assistant turn, after trimming, search round trips, failed calls and
\* concurrent calls on the session.
C30_CompletePairs ==
    \A s \in SessionIds : ~InFlight(s) => CompletePairs(hist[s])

\* the turns of the history h that call c appended, in the order of h
Own(c, h) == SelectSeq(h, LAMBDA turn : turn.content.call = c)

\* no other call worked on the session of c while c was in flight or after it
Sole(c) ==
    \A d \in 1..Len(calls) \ {c} :
        calls[d].session_id = calls[c].session_id =>
            d < c /\ d \notin calls[c].during

\* the two turns of the search round trip of c: the first response, then the
\* observation built from the search results
Intermediate(c) ==
    <<Turn("assistant", calls[c].first),
      Turn("user", Content("obs", c, 1, <<>>, NoMark, calls[c].first.seen))>>

\* C31: a call with a search round trip appends four turns to its session,
\* in this order: assistant (first response, with the marker), user (search
\* observation), user (the message), assistant (the text returned); the first
\* two are in the session while the second LLM call is awaited and stay there
\* when that call fails.
C31_SearchRoundTrip ==
    \A c \in 1..Len(calls) :
        calls[c].searches = 1 =>
            LET cr == calls[c]
                h == hist[cr.session_id]
                four == Intermediate(c)
                            \o <<Turn("user", UserMessage(c, cr)),
                                 Turn("assistant", cr.result.text)>>
            IN  /\ cr.first.search # "none"
                /\ cr.pc \in {"llm2", "done"}
                /\ (cr.pc = "llm2" \/ cr.fault = "llm2") =>
                        /\ IsSuffix(Own(c, h), Intermediate(c))
                        /\ Sole(c) => IsSuffix(Intermediate(c), h)
                /\ (Complete(c) /\ cr.result.success) =>
                        /\ IsSuffix(Own(c, h), four)
                        /\ Sole(c) => IsSuffix(four, h)

\* one call has searched and returned a reply, and its session ends with its
\* four turns; another has searched and failed on its second LLM call, and
\* its session ends with its two intermediate turns
C31_Witness ==
    \E c, d \in 1..Len(calls) :
        /\ Complete(c) /\ calls[c].searches = 1 /\ calls[c].result.success
        /\ Sole(c)
        /\ Len(Own(c, hist[calls[c].session_id])) = 4
        /\ hist[calls[c].session_id][1].role = "assistant"
        /\ hist[calls[c].session_id][3]
              = Turn("user", UserMessage(c, calls[c]))
        /\ Complete(d) /\ calls[d].searches = 1 /\ calls[d].fault = "llm2"
        /\ Sole(d)
        /\ hist[calls[d].session_id] = Intermediate(d)

\* the calls that were resets and have returned
Resets == {c \in 1..Len(calls) : calls[c].result.text = ResetText}

\* C32 (as claimed): once a reset of a user has returned, the memory record
\* of the user stays empty until an extraction spawned by a call submitted
\* after the reset writes it: every fact of the record comes from a call
\* later than every reset of the user, never from an extraction that was
\* awaiting its LLM call when the reset ran.
C32_ResetKeepsMemoryEmpty ==
    \A c \in Resets :
        \A f \in memory[MemoryKey(UserId(calls[c].user))] : f.src > c

\* C33 (as claimed): once a reset of a session has returned, the history of
\* the session holds no turn of a call that was submitted before the reset,
\* also when such a call was suspended on its LLM call while the reset ran.
C33_ResetKeepsHistoryClean ==
    \A c \in Resets :
        \A i \in 1..Len(hist[calls[c].session_id]) :
            hist[calls[c].session_id][i].content.call > c

\* C34 (as claimed): while a call of one user is suspended on an LLM call,
\* the message of another user of the platform that arrives meanwhile starts
\* to be processed without waiting for the handler of the first: the calls
\* that were in flight when a message arrived are still in flight when its
\* own call starts.
C34_DispatchNotBlocked ==
    \A d \in 1..Len(calls) :
        \A c \in probe.frames[d].during :
            calls[c].user # calls[d].user => c \in calls[d].during

\* C38 (as claimed): a message of a QQ user whose text is exactly a reset
\* keyword is processed as a reset by the pipeline from the QQ adapter to
\* the Agent: its call returns the confirmation of the reset, having cleared
\* the history and the memory of the user, and makes no LLM call.
C38_QqResetEndToEnd ==
    \A d \in 1..Len(calls) :
        probe.frames[d].text \in ResetKeywords =>
            /\ calls[d].pc = "done"
            /\ calls[d].llm = 0
            /\ calls[d].result.text = ResetText

\* the extractions that have saved a profile
Saved == {e \in 1..MaxCalls : extractions[e].state = "saved"}

\* C35 (as claimed): when two extractions of one user overlap, no update is
\* lost: the later write is computed from a memory text that includes the
\* earlier write, so that, no reset having run, the record of a user holds
\* what every extraction of the user has saved.
C35_NoLostUpdate ==
    Resets = {} =>
        \A e \in Saved :
            \E f \in memory[SafeUid(extractions[e].user_id)] : f.src = e

C37_AckBeforeNotification ==
    \A chat \in Chats :
        \A j \in 1..Len(outbox[chat]) :
            (outbox[chat][j].via = "callback"
                /\ outbox[chat][j].content.t \in ToolTextKinds) =>
                \E i \in 1..(j - 1) :
                    /\ outbox[chat][i].via = "reply"
                    /\ outbox[chat][i].content.t = "ack"
                    /\ outbox[chat][i].content.call
                          = outbox[chat][j].content.call

\* a task has ended with a reply and a chat holds the acknowledgement of its
\* call followed by the result of the task
C37_Witness ==
    \E t \in 1..Len(calls) :
        /\ tasks[t].state = "done" /\ tasks[t].outcome = "reply"
        /\ LET box == outbox[calls[t].callback_session_id]
           IN  /\ Len(box) >= 2
               /\ \E i, j \in 1..Len(box) :
                    /\ i < j
                    /\ box[i] = [to |-> calls[t].callback_session_id,
                                 content |-> calls[t].result.text,
                                 via |-> "reply"]
                    /\ calls[t].result.text.t = "ack"
                    /\ box[j].via = "callback"
                    /\ box[j].content.t = "tool_result"
                    /\ box[j].content.call = t

\* C39 (as claimed): the reply to an inbound Lark message, whose request
\* copies the message type of the message (private or group), is posted by
\* the Lark adapter as a text message whose text is the response text of the
\* call, unchanged, without the fallback for unsupported types.
C39_LarkReplyText ==
    \A i \in 1..Len(probe.sent) :
        probe.sent[i].via = "reply" =>
            /\ probe.sent[i].request.message_type
                  = probe.message.message_type
            /\ probe.sent[i].posted.msg_type = "text"
            /\ probe.sent[i].posted.key = "text"
            /\ probe.sent[i].posted.value = probe.sent[i].request.content

\* C40 (as claimed): a call whose first response carries a Search marker and
\* whose LLM calls do not fail runs the search, calls the LLM a second time
\* and returns a successful reply, also when the notification callback
\* raises while the search notice is sent: the failure of the notice alone
\* never makes the result a failure.
C40_NoticeFailureTolerated ==
    \A c \in 1..Len(calls) :
        (Complete(c) /\ calls[c].first.search # "none"
                     /\ calls[c].fault \notin {"llm1", "llm2"}) =>
            /\ calls[c].searches = 1
            /\ calls[c].llm = 2
            /\ calls[c].result.success
====
